---- MODULE Spec2Model ----
(***************************************************************************)
(* Model of the clippy-go agent control loop (package agent): the Agent    *)
(* object, GetResponse with its bounded tool loop, ClearHistory,           *)
(* SetProvider, GetConfig and UpdateConfig, together with the parts of the *)
(* tool registry and of the llm package that the loop depends on.          *)
(*                                                                         *)
(* Go strings are modelled as sequences of tokens, so that formatting      *)
(* (fmt.Sprintf) is concatenation and file contents are sequences of       *)
(* characters.  A nil pointer or nil interface is the empty sequence and a *)
(* non-nil one is a one-element sequence.                                  *)
(***************************************************************************)
EXTENDS Integers, Sequences, FiniteSets, TLC

(***************************************************************************)
(* Bounds of the model.                                                    *)
(***************************************************************************)
\* a turn may start only while History has at most this many messages
MaxHistStart == 5
\* the scripted provider answers at most this many calls of a turn with a
\* tool request; its next answer is a final answer or a failure
FreeCalls == 2
\* the counting provider serves turns that start from a History of at most
\* this many messages
MaxLongStart == 1
\* SetProvider, GetConfig and UpdateConfig are called only while History has
\* at most this many messages
MaxCfgHist == 2
\* the longest file content, in characters, of the tool runs
MaxData == 3
\* the largest token count a response body reports
MaxTokens == 3
\* the user submits a line that adds to the conversation view only while the
\* view holds at most this many messages
MaxMessages == 0

(***************************************************************************)
(* Program constants.                                                      *)
(***************************************************************************)
\* for i := 0; i < 50; i++
MaxSteps == 50

systemPrompt == <<"You are Clippy, the helpful Microsoft Office assistant">>
NoBrainMessage ==
    <<"I have no brain! Please configure the LLM provider in your .env file so I can think.">>
LoopMessage ==
    <<"I'm stuck in a loop! I keep trying to do the same thing over and over. Stopping to save your tokens.">>
ExhaustedMessage ==
    <<"I ran out of moves! (Max steps reached). Try breaking down your request.">>

(***************************************************************************)
(* package llm: Usage, ToolCall, Message, Config.                          *)
(***************************************************************************)
Nil == <<>>
Ptr(v) == <<v>>
IsNil(p) == p = <<>>
Deref(p) == p[1]

Usage(p, c, t) == [PromptTokens |-> p, CompletionTokens |-> c, TotalTokens |-> t]

\* a JSON value held in a map[string]interface{}
JStr(s) == [str |-> s]
JNum(n) == [num |-> n]

ToolCall(id, name, args) == [ID |-> id, Name |-> name, Arguments |-> args]

Message(role, content, toolCalls, toolCallID, usage) ==
    [Role |-> role, Content |-> content, ToolCalls |-> toolCalls,
     ToolCallID |-> toolCallID, Usage |-> usage]

\* the zero value of the ToolCallID string
NoID == 0

Config(key, url, mdl, prov) ==
    [APIKey |-> key, BaseURL |-> url, Model |-> mdl, Provider |-> prov]
ZeroConfig == Config("", "", "", "")

\* reflect.DeepEqual on two []llm.ToolCall: same length and, element by
\* element, the same ID, Name and Arguments
DeepEqualNameArgsOnly(a, b) ==
    /\ Len(a) = Len(b)
    /\ \A k \in 1..Len(a) :
          /\ a[k].Name = b[k].Name
          /\ a[k].Arguments = b[k].Arguments
DeepEqual(a, b) ==
    /\ Len(a) = Len(b)
    /\ \A k \in 1..Len(a) :
          /\ a[k].ID = b[k].ID
          /\ a[k].Name = b[k].Name
          /\ a[k].Arguments = b[k].Arguments

(***************************************************************************)
(* package tools: the registry and the tools' Execute.                     *)
(***************************************************************************)
\* the file system: the working directory Cwd holds the entries named by
\* Paths, each a file, an (empty) directory or nothing
PathOrder == << <<"f">>, <<"g">> >>
Paths == {PathOrder[k] : k \in 1..Len(PathOrder)}
Cwd == <<".">>
NoFile == [exists |-> FALSE, data |-> <<>>]
File(d) == [exists |-> TRUE, data |-> d]
Dir == [exists |-> TRUE, data |-> <<>>, dir |-> TRUE]
Exists(f, p) == p \in DOMAIN f /\ f[p].exists
IsDir(f, p) == Exists(f, p) /\ "dir" \in DOMAIN f[p]
IsFile(f, p) == Exists(f, p) /\ ~IsDir(f, p)

\* availableTools, in registration order (Definition().Name of each)
availableTools ==
    <<"read_file", "write_file", "edit_file", "list_directory", "search_files",
      "create_directory", "delete_file", "move_file", "append_to_file",
      "read_file_lines", "get_current_directory", "run_command">>

\* Definition().Parameters: the required arguments of each tool and the
\* JSON type of each
Required(name) ==
    CASE name = "read_file" -> {<<"path", "str">>}
      [] name = "write_file" -> {<<"path", "str">>, <<"content", "str">>}
      [] name = "edit_file" -> {<<"path", "str">>, <<"target", "str">>, <<"replacement", "str">>}
      [] name = "list_directory" -> {<<"path", "str">>}
      [] name = "search_files" -> {<<"path", "str">>, <<"pattern", "str">>}
      [] name = "create_directory" -> {<<"path", "str">>}
      [] name = "delete_file" -> {<<"path", "str">>}
      [] name = "move_file" -> {<<"source", "str">>, <<"destination", "str">>}
      [] name = "append_to_file" -> {<<"path", "str">>, <<"content", "str">>}
      [] name = "read_file_lines" ->
            {<<"path", "str">>, <<"start_line", "num">>, <<"end_line", "num">>}
      [] name = "get_current_directory" -> {}
      [] name = "run_command" -> {<<"command", "str">>}

\* args[key].(string): the key is present and holds a string
HasString(args, key) == key \in DOMAIN args /\ DOMAIN args[key] = {"str"}
\* args[key].(float64): the key is present and holds a number
HasNumber(args, key) == key \in DOMAIN args /\ DOMAIN args[key] = {"num"}

\* the outcome of an Execute: the returned string, the error (nil or not),
\* the file system it leaves and whether it started a process
Ok(text, f) == [result |-> text, err |-> Nil, fs |-> f, spawned |-> FALSE]
Err(e, f) == [result |-> <<>>, err |-> Ptr(e), fs |-> f, spawned |-> FALSE]
Spawned(out) == [out EXCEPT !.spawned = TRUE]
MissingArg(key) == <<"missing or invalid '", key, "' argument">>

\* os.ReadFile / os.WriteFile
OsReadFile(f, path) ==
    IF IsFile(f, path) THEN Ok(f[path].data, f)
    ELSE IF IsDir(f, path) \/ path = Cwd THEN Err(<<"is a directory">>, f)
    ELSE Err(<<"no such file or directory">>, f)
\* os.OpenFile(path, O_APPEND|O_CREATE|O_WRONLY, 0644) and WriteString
OsAppendFileTruncating(f, path, data) ==
    IF path \notin DOMAIN f THEN Err(<<"no such file or directory">>, f)
    ELSE IF IsDir(f, path) THEN Err(<<"is a directory">>, f)
    ELSE Ok(<<>>, [f EXCEPT ![path] = File(data)])
OsAppendFile(f, path, data) ==
    IF path \notin DOMAIN f THEN Err(<<"no such file or directory">>, f)
    ELSE IF IsDir(f, path) THEN Err(<<"is a directory">>, f)
    ELSE Ok(<<>>, [f EXCEPT ![path] = File(@.data \o data)])
OsWriteFileAppending(f, path, data) == OsAppendFile(f, path, data)
OsWriteFile(f, path, data) ==
    IF path \notin DOMAIN f THEN Err(<<"no such file or directory">>, f)
    ELSE IF IsDir(f, path) THEN Err(<<"is a directory">>, f)
    ELSE Ok(<<>>, [f EXCEPT ![path] = File(data)])

ReadFileExecute(args, f) ==
    IF ~HasString(args, "path")
    THEN Err(MissingArg("path"), f)
    ELSE LET path == args["path"].str
             rd == OsReadFile(f, path) IN
         IF ~IsNil(rd.err)
         THEN Err(<<"failed to read file: ">> \o Deref(rd.err), f)
         ELSE Ok(rd.result, f)

WriteFileExecuteUnchecked(args, f) ==
    IF ~HasString(args, "path")
    THEN Err(MissingArg("path"), f)
    ELSE LET path == args["path"].str
             content == IF HasString(args, "content") THEN args["content"].str ELSE <<>>
             wr == OsWriteFile(f, path, content) IN
         IF ~HasString(args, "content")
         THEN Err(MissingArg("content"), wr.fs)
         ELSE IF ~IsNil(wr.err)
         THEN Err(<<"failed to write file: ">> \o Deref(wr.err), f)
         ELSE Ok(<<"Successfully wrote to ">> \o path, wr.fs)
WriteFileExecute(args, f) ==
    IF ~HasString(args, "path")
    THEN Err(MissingArg("path"), f)
    ELSE IF ~HasString(args, "content")
    THEN Err(MissingArg("content"), f)
    ELSE LET path == args["path"].str
             content == args["content"].str
             wr == OsWriteFile(f, path, content) IN
         IF ~IsNil(wr.err)
         THEN Err(<<"failed to write file: ">> \o Deref(wr.err), f)
         ELSE Ok(<<"Successfully wrote to ">> \o path, wr.fs)

\* strings.Index: the offset of the leftmost occurrence of target in text
\* at or after offset k, or -1
RECURSIVE IndexFrom(_, _, _)
IndexFrom(text, target, k) ==
    IF k + Len(target) > Len(text) THEN -1
    ELSE IF SubSeq(text, k + 1, k + Len(target)) = target THEN k
    ELSE IndexFrom(text, target, k + 1)
Index(text, target) == IndexFrom(text, target, 0)
\* strings.Contains
Contains(text, target) == Index(text, target) >= 0
\* strings.Replace(text, target, replacement, 1)
RECURSIVE ReplaceAll(_, _, _)
ReplaceAll(text, target, replacement) ==
    LET k == Index(text, target) IN
    IF k < 0 \/ target = <<>> THEN text
    ELSE SubSeq(text, 1, k) \o replacement
         \o ReplaceAll(SubSeq(text, k + Len(target) + 1, Len(text)), target, replacement)
ReplaceFirst(text, target, replacement) ==
    LET k == Index(text, target) IN
    IF k < 0 THEN text
    ELSE SubSeq(text, 1, k) \o replacement \o SubSeq(text, k + Len(target) + 1, Len(text))

EditFileExecuteNoCheck(args, f) ==
    IF ~HasString(args, "path") THEN Err(MissingArg("path"), f)
    ELSE IF ~HasString(args, "target") THEN Err(MissingArg("target"), f)
    ELSE IF ~HasString(args, "replacement") THEN Err(MissingArg("replacement"), f)
    ELSE LET path == args["path"].str
             rd == OsReadFile(f, path) IN
         IF ~IsNil(rd.err)
         THEN Err(<<"failed to read file: ">> \o Deref(rd.err), f)
         ELSE LET wr == OsWriteFile(f, path, <<>>) IN
              IF ~Contains(rd.result, args["target"].str)
              THEN Err(<<"target string not found in file">>, wr.fs)
              ELSE LET newText == ReplaceFirst(rd.result, args["target"].str, args["replacement"].str)
                       w2 == OsWriteFile(f, path, newText) IN
                   Ok(<<"Successfully edited ">> \o path, w2.fs)
EditFileExecute(args, f) ==
    IF ~HasString(args, "path") THEN Err(MissingArg("path"), f)
    ELSE IF ~HasString(args, "target") THEN Err(MissingArg("target"), f)
    ELSE IF ~HasString(args, "replacement") THEN Err(MissingArg("replacement"), f)
    ELSE LET path == args["path"].str
             target == args["target"].str
             replacement == args["replacement"].str
             rd == OsReadFile(f, path) IN
         IF ~IsNil(rd.err)
         THEN Err(<<"failed to read file: ">> \o Deref(rd.err), f)
         ELSE IF ~Contains(rd.result, target)
         THEN Err(<<"target string not found in file">>, f)
         ELSE LET newText == ReplaceFirst(rd.result, target, replacement)
                  wr == OsWriteFile(f, path, newText) IN
              IF ~IsNil(wr.err)
              THEN Err(<<"failed to write file: ">> \o Deref(wr.err), f)
              ELSE Ok(<<"Successfully edited ">> \o path, wr.fs)

\* strconv: decimal digits of a natural number
Digits == <<"0", "1", "2", "3", "4", "5", "6", "7", "8", "9">>
RECURSIVE Itoa(_)
Itoa(n) == IF n < 10 THEN <<Digits[n + 1]>> ELSE Itoa(n \div 10) \o <<Digits[(n % 10) + 1]>>

\* the lines list_directory writes for the entries of order[k..], which
\* os.ReadDir returns sorted by name
RECURSIVE EntryLines(_, _, _)
EntryLines(f, order, k) ==
    IF k > Len(order) THEN <<>>
    ELSE (IF IsDir(f, order[k]) THEN <<"  [DIR]  ">> \o order[k] \o <<"\n">>
          ELSE IF IsFile(f, order[k])
          THEN <<"  [FILE] ">> \o order[k] \o <<" (">> \o Itoa(Len(f[order[k]].data)) \o <<" bytes)\n">>
          ELSE <<>>)
         \o EntryLines(f, order, k + 1)

ListDirectoryExecute(args, f) ==
    IF ~HasString(args, "path") THEN Err(MissingArg("path"), f)
    ELSE LET path == args["path"].str IN
         IF path = Cwd
         THEN Ok(<<"Contents of ">> \o path \o <<":\n">> \o EntryLines(f, PathOrder, 1), f)
         ELSE IF IsDir(f, path)
         THEN Ok(<<"Contents of ">> \o path \o <<":\n">>, f)
         ELSE IF IsFile(f, path)
         THEN Err(<<"failed to read directory: ", "not a directory">>, f)
         ELSE Err(<<"failed to read directory: ", "no such file or directory">>, f)

\* grep -r -n pattern path: its combined output, reduced to the names of
\* the files that hold the pattern
RECURSIVE GrepOutput(_, _, _, _)
GrepOutput(f, order, pattern, k) ==
    IF k > Len(order) THEN <<>>
    ELSE (IF IsFile(f, order[k]) /\ Contains(f[order[k]].data, pattern)
          THEN order[k] \o <<":1:">> \o f[order[k]].data \o <<"\n">>
          ELSE <<>>)
         \o GrepOutput(f, order, pattern, k + 1)
SearchFilesExecute(args, f) ==
    IF ~HasString(args, "path") THEN Err(MissingArg("path"), f)
    ELSE IF ~HasString(args, "pattern") THEN Err(MissingArg("pattern"), f)
    ELSE LET path == args["path"].str
             pattern == args["pattern"].str
             output == IF path = Cwd THEN GrepOutput(f, PathOrder, pattern, 1)
                       ELSE IF Exists(f, path) THEN GrepOutput(f, <<path>>, pattern, 1)
                       ELSE <<"grep: ">> \o path \o <<": No such file or directory\n">> IN
         IF output = <<>>
         THEN Spawned(Ok(<<"No matches found">>, f))
         ELSE Spawned(Ok(output, f))

CreateDirectoryExecute(args, f) ==
    IF ~HasString(args, "path") THEN Err(MissingArg("path"), f)
    ELSE LET path == args["path"].str IN
         IF path = Cwd \/ IsDir(f, path)
         THEN Ok(<<"Successfully created directory ">> \o path, f)
         ELSE IF path \notin DOMAIN f
         THEN Err(<<"failed to create directory: ", "no such file or directory">>, f)
         ELSE IF IsFile(f, path)
         THEN Err(<<"failed to create directory: ", "not a directory">>, f)
         ELSE Ok(<<"Successfully created directory ">> \o path, [f EXCEPT ![path] = Dir])

DeleteFileExecute(args, f) ==
    IF ~HasString(args, "path") THEN Err(MissingArg("path"), f)
    ELSE LET path == args["path"].str IN
         IF path = Cwd
         THEN Err(<<"failed to delete file: ", "invalid argument">>, f)
         ELSE IF ~Exists(f, path)
         THEN Err(<<"failed to delete file: ", "no such file or directory">>, f)
         ELSE Ok(<<"Successfully deleted ">> \o path, [f EXCEPT ![path] = NoFile])

\* os.Rename
MoveFileExecute(args, f) ==
    IF ~HasString(args, "source") THEN Err(MissingArg("source"), f)
    ELSE IF ~HasString(args, "destination") THEN Err(MissingArg("destination"), f)
    ELSE LET source == args["source"].str
             destination == args["destination"].str IN
         IF ~Exists(f, source) \/ destination \notin DOMAIN f
         THEN Err(<<"failed to move file: ", "no such file or directory">>, f)
         ELSE IF source # destination /\ IsFile(f, source) /\ IsDir(f, destination)
         THEN Err(<<"failed to move file: ", "file exists">>, f)
         ELSE IF source # destination /\ IsDir(f, source) /\ IsFile(f, destination)
         THEN Err(<<"failed to move file: ", "not a directory">>, f)
         ELSE Ok(<<"Successfully moved ">> \o source \o <<" to ">> \o destination,
                 IF source = destination THEN f
                 ELSE [f EXCEPT ![destination] = f[source], ![source] = NoFile])

AppendToFileExecute(args, f) ==
    IF ~HasString(args, "path") THEN Err(MissingArg("path"), f)
    ELSE IF ~HasString(args, "content") THEN Err(MissingArg("content"), f)
    ELSE LET path == args["path"].str
             wr == OsAppendFile(f, path, args["content"].str) IN
         IF ~IsNil(wr.err)
         THEN Err(<<"failed to open file: ">> \o Deref(wr.err), f)
         ELSE Ok(<<"Successfully appended to ">> \o path, wr.fs)

\* strings.Split(text, "\n") and strings.Join(lines, "\n")
RECURSIVE SplitLines(_)
SplitLines(text) ==
    LET k == Index(text, <<"\n">>) IN
    IF k < 0 THEN <<text>>
    ELSE <<SubSeq(text, 1, k)>> \o SplitLines(SubSeq(text, k + 2, Len(text)))
RECURSIVE JoinLines(_)
JoinLines(lines) ==
    IF Len(lines) = 0 THEN <<>>
    ELSE IF Len(lines) = 1 THEN lines[1]
    ELSE lines[1] \o <<"\n">> \o JoinLines(Tail(lines))

ReadFileLinesExecute(args, f) ==
    IF ~HasString(args, "path") THEN Err(MissingArg("path"), f)
    ELSE IF ~HasNumber(args, "start_line") THEN Err(MissingArg("start_line"), f)
    ELSE IF ~HasNumber(args, "end_line") THEN Err(MissingArg("end_line"), f)
    ELSE LET startLine == args["start_line"].num
             endLine == args["end_line"].num
             rd == OsReadFile(f, args["path"].str) IN
         IF ~IsNil(rd.err)
         THEN Err(<<"failed to read file: ">> \o Deref(rd.err), f)
         ELSE LET lines == SplitLines(rd.result) IN
              IF startLine < 1 \/ startLine > Len(lines)
              THEN Err(<<"start_line out of range">>, f)
              ELSE IF endLine < startLine \/ endLine > Len(lines)
              THEN Err(<<"end_line out of range">>, f)
              ELSE Ok(JoinLines(SubSeq(lines, startLine, endLine)), f)

GetCurrentDirectoryExecute(args, f) == Ok(<<"/work">>, f)

\* sh -c command, for the commands of the model: one that succeeds, one
\* that fails, and one that removes the file f
CmdTrue == <<"true">>
CmdFalse == <<"false">>
CmdRemove == <<"rm f">>
Commands == {CmdTrue, CmdFalse, CmdRemove}
\* exec.Command("sh", "-c", command).CombinedOutput(): the captured output,
\* the error of a command that exits with failure, and the file system after
CombinedOutput(command, f) ==
    IF command = CmdTrue THEN [output |-> <<>>, err |-> Nil, fs |-> f]
    ELSE IF command = CmdRemove /\ IsFile(f, <<"f">>)
    THEN [output |-> <<>>, err |-> Nil, fs |-> [f EXCEPT ![<<"f">>] = NoFile]]
    ELSE IF command = CmdRemove
    THEN [output |-> <<"rm: cannot remove 'f'\n">>, err |-> Ptr(<<"exit status 1">>), fs |-> f]
    ELSE IF command = CmdFalse
    THEN [output |-> <<>>, err |-> Ptr(<<"exit status 1">>), fs |-> f]
    ELSE [output |-> <<"sh: command not found\n">>, err |-> Ptr(<<"exit status 127">>), fs |-> f]
RunCommandExecuteFailing(args, f) ==
    IF ~HasString(args, "command") THEN Err(MissingArg("command"), f)
    ELSE LET cmd == CombinedOutput(args["command"].str, f) IN
         IF ~IsNil(cmd.err)
         THEN Spawned(Err(<<"Command failed: ">> \o Deref(cmd.err), cmd.fs))
         ELSE Spawned(Ok(cmd.output, cmd.fs))
RunCommandExecute(args, f) ==
    IF ~HasString(args, "command") THEN Err(MissingArg("command"), f)
    ELSE LET cmd == CombinedOutput(args["command"].str, f) IN
         IF ~IsNil(cmd.err)
         THEN Spawned(Ok(<<"Command failed: ">> \o Deref(cmd.err) \o <<"\nOutput:\n">>
                         \o cmd.output, cmd.fs))
         ELSE Spawned(Ok(cmd.output, cmd.fs))

\* tool.Execute(tc.Arguments) by dynamic dispatch on the registered tool
Execute(name, args, f) ==
    CASE name = "read_file" -> ReadFileExecute(args, f)
      [] name = "write_file" -> WriteFileExecute(args, f)
      [] name = "edit_file" -> EditFileExecute(args, f)
      [] name = "list_directory" -> ListDirectoryExecute(args, f)
      [] name = "search_files" -> SearchFilesExecute(args, f)
      [] name = "create_directory" -> CreateDirectoryExecute(args, f)
      [] name = "delete_file" -> DeleteFileExecute(args, f)
      [] name = "move_file" -> MoveFileExecute(args, f)
      [] name = "append_to_file" -> AppendToFileExecute(args, f)
      [] name = "read_file_lines" -> ReadFileLinesExecute(args, f)
      [] name = "get_current_directory" -> GetCurrentDirectoryExecute(args, f)
      [] name = "run_command" -> RunCommandExecute(args, f)

\* the lookup loop of GetResponse: the first registered tool whose
\* Definition().Name equals the call's name, or nil
FindToolNone(name) == Nil
FindTool(name) ==
    IF \E k \in 1..Len(availableTools) : availableTools[k] = name
    THEN Ptr(name)
    ELSE Nil

\* the result string GetResponse records for one tool call, and the file
\* system after it
RunToolCallErrorDropped(tc, f) ==
    LET tool == FindTool(tc.Name) IN
    IF ~IsNil(tool)
    THEN LET out == Execute(Deref(tool), tc.Arguments, f) IN
         [result |-> out.result, fs |-> out.fs]
    ELSE [result |-> <<>>, fs |-> f]
RunToolCall(tc, f) ==
    LET tool == FindTool(tc.Name) IN
    IF ~IsNil(tool)
    THEN LET out == Execute(Deref(tool), tc.Arguments, f) IN
         IF ~IsNil(out.err)
         THEN [result |-> <<"Error executing tool: ">> \o Deref(out.err), fs |-> out.fs]
         ELSE [result |-> out.result, fs |-> out.fs]
    ELSE [result |-> <<"Tool not found: ", tc.Name>>, fs |-> f]

(***************************************************************************)
(* The providers: what Generate may return.  A provider is an external     *)
(* service, so each call's outcome is chosen by the environment.           *)
(***************************************************************************)
\* NewProvider(cfg): the adapter variant is fixed by cfg.Provider
NewProvider(cfg) == [variant |-> cfg.Provider, Config |-> cfg]
cfgAnthropic == Config("key", "", "claude", "anthropic")
Configs == {Config("key", "", "gpt", "openai"), cfgAnthropic}
Providers == {Nil} \cup {Ptr(NewProvider(c)) : c \in Configs}

Inputs == {<<"hello">>, <<"list files">>}
\* the user's inputs come in this order, turn after turn
InputOrder == << <<"hello">>, <<"list files">> >>
NextInput(n) == InputOrder[(n % Len(InputOrder)) + 1]

U1 == Usage(3, 2, 6)
U2 == Usage(1, 1, 2)

thePath == JStr(<<"f">>)
ReqRead == <<ToolCall(101, "read_file", [path |-> thePath])>>
ReqMany ==
    <<ToolCall(103, "write_file", [path |-> thePath, content |-> JStr(<<"a">>)]),
      ToolCall(104, "bogus", [path |-> thePath]),
      ToolCall(105, "write_file", [path |-> thePath])>>

\* a provider's answer: an assistant message (both adapters set the role)
Assistant(content, toolCalls, usage) ==
    Message("assistant", content, toolCalls, NoID, usage)

Finals == {Assistant(<<"done">>, <<>>, u) : u \in {Nil, Ptr(U2)}}
ToolRequests ==
    {Assistant(<<>>, r, Ptr(U1)) :
        r \in {ReqRead, <<ToolCall(102, "read_file", [path |-> thePath])>>, ReqMany}}

\* the ToolCalls of the last assistant message of h that has some, or <<>>
RECURSIVE LastRequest(_)
LastRequest(h) ==
    IF h = <<>> THEN <<>>
    ELSE IF h[Len(h)].Role = "assistant" /\ Len(h[Len(h)].ToolCalls) > 0
    THEN h[Len(h)].ToolCalls
    ELSE LastRequest(SubSeq(h, 1, Len(h) - 1))

\* the messages the provider may return on call n (0-based) of a turn: the
\* listing provider asks for one call of list_directory on the working
\* directory, the counting provider for one tool call whose argument
\* changes with every call
Answers(md, n, h) ==
    IF md = "scripted"
    THEN Finals \cup (IF n < FreeCalls THEN ToolRequests ELSE {})
    ELSE IF md = "listing"
    THEN (IF n = 0
          THEN {Assistant(<<>>, <<ToolCall(106, "list_directory", [path |-> JStr(Cwd)])>>,
                          Ptr(U1))}
          ELSE {Assistant(<<"two files">>, <<>>, Ptr(U2))})
    ELSE Finals \cup {Assistant(<<>>,
                                <<ToolCall(n, "read_file", [path |-> thePath, n |-> JNum(n)])>>,
                                Ptr(U1))}
                \cup (IF n > 0 THEN {Assistant(<<>>, LastRequest(h), Ptr(U1))} ELSE {})
GenerateError == <<"API error: ", "500">>

\* the HTTP exchange of one Generate call, as the adapter sees it: the
\* request cannot be sent, the status is not 200, the body cannot be
\* decoded, the decoded body holds no choices (no content blocks), or the
\* decoded body holds the message msg
HTTPFailures == {[kind |-> k] : k \in {"network", "status", "decode", "empty"}}
\* the exchanges call n of a turn may see
Exchanges(md, n, h) == HTTPFailures \cup {[kind |-> "ok", msg |-> m] : m \in Answers(md, n, h)}
\* what Generate returns for an exchange: (*Message, error)
GenerateEmptyAsMessage(x) ==
    IF x.kind = "empty"
    THEN [msg |-> Ptr(Assistant(<<>>, <<>>, Ptr(Usage(0, 0, 0)))), err |-> Nil]
    ELSE IF x.kind = "ok" THEN [msg |-> Ptr(x.msg), err |-> Nil]
    ELSE [msg |-> Nil, err |-> Ptr(GenerateError)]
Generate(x) ==
    IF x.kind = "network" THEN [msg |-> Nil, err |-> Ptr(<<"dial tcp: ", "connection refused">>)]
    ELSE IF x.kind = "status" THEN [msg |-> Nil, err |-> Ptr(GenerateError)]
    ELSE IF x.kind = "decode" THEN [msg |-> Nil, err |-> Ptr(<<"invalid character">>)]
    ELSE IF x.kind = "empty" THEN [msg |-> Nil, err |-> Ptr(<<"no response from API">>)]
    ELSE [msg |-> Ptr(x.msg), err |-> Nil]

\* json.Marshal of a tool call's arguments, kept as the encoded value
JSONEncode(args) == [json |-> args]
\* OpenAIProvider.Generate: the outbound form of one message
OpenAIToolCall(tc) ==
    [id |-> tc.ID, type |-> "function",
     function |-> [name |-> tc.Name, arguments |-> JSONEncode(tc.Arguments)]]
OpenAIToolCallsReversed(calls) ==
    [j \in 1..Len(calls) |-> OpenAIToolCall(calls[Len(calls) + 1 - j])]
OpenAIToolCalls(calls) == [j \in 1..Len(calls) |-> OpenAIToolCall(calls[j])]
OpenAIMessage(msg) ==
    IF Len(msg.ToolCalls) > 0 /\ msg.ToolCallID # NoID
    THEN [role |-> msg.Role, content |-> msg.Content,
          tool_calls |-> OpenAIToolCalls(msg.ToolCalls), tool_call_id |-> msg.ToolCallID]
    ELSE IF Len(msg.ToolCalls) > 0
    THEN [role |-> msg.Role, content |-> msg.Content,
          tool_calls |-> OpenAIToolCalls(msg.ToolCalls)]
    ELSE IF msg.ToolCallID # NoID
    THEN [role |-> msg.Role, content |-> msg.Content, tool_call_id |-> msg.ToolCallID]
    ELSE [role |-> msg.Role, content |-> msg.Content]
OpenAIMessages(messages) == [k \in 1..Len(messages) |-> OpenAIMessage(messages[k])]
\* OpenAIProvider.Generate: the request body
OpenAIRequest(cfg, messages) ==
    [api |-> "openai", model |-> cfg.Model, messages |-> OpenAIMessages(messages),
     tools |-> availableTools]

\* AnthropicProvider.Generate: the inner loop over a run of tool messages
\* that starts at position k; the position after the run
RunEndUnmerged(messages, k) == k + 1
RECURSIVE RunEnd(_, _)
RunEnd(messages, k) ==
    IF k <= Len(messages) /\ messages[k].Role = "tool"
    THEN RunEnd(messages, k + 1)
    ELSE k
ToolResultBlock(toolMsg) ==
    [type |-> "tool_result", tool_use_id |-> toolMsg.ToolCallID, content |-> toolMsg.Content]
ToolUseBlock(tc) ==
    [type |-> "tool_use", id |-> tc.ID, name |-> tc.Name, input |-> tc.Arguments]
TextBlock(text) == [type |-> "text", text |-> text]
\* the content of an outbound message: a string or a list of blocks
Text(s) == [text |-> s]
Blocks(b) == [blocks |-> b]
\* AnthropicProvider.Generate: the outer loop from position k on
RECURSIVE AnthropicMessagesFrom(_, _)
AnthropicMessagesFrom(messages, k) ==
    IF k > Len(messages) THEN <<>>
    ELSE LET msg == messages[k] IN
         IF msg.Role = "system" THEN AnthropicMessagesFrom(messages, k + 1)
         ELSE IF msg.Role = "tool"
         THEN LET e == RunEnd(messages, k) IN
              <<[role |-> "user",
                 content |-> Blocks([j \in 1..(e - k) |-> ToolResultBlock(messages[k + j - 1])])]>>
              \o AnthropicMessagesFrom(messages, e)
         ELSE IF Len(msg.ToolCalls) > 0
         THEN <<[role |-> msg.Role,
                 content |-> Blocks((IF msg.Content # <<>> THEN <<TextBlock(msg.Content)>> ELSE <<>>)
                                    \o [j \in 1..Len(msg.ToolCalls) |-> ToolUseBlock(msg.ToolCalls[j])])]>>
              \o AnthropicMessagesFrom(messages, k + 1)
         ELSE <<[role |-> msg.Role, content |-> Text(msg.Content)]>>
              \o AnthropicMessagesFrom(messages, k + 1)
AnthropicMessages(messages) == AnthropicMessagesFrom(messages, 1)
\* systemPrompt: the content of the last system message, or ""
AnthropicSystemDropped(messages) == <<>>
RECURSIVE AnthropicSystem(_)
AnthropicSystem(messages) ==
    IF messages = <<>> THEN <<>>
    ELSE IF messages[Len(messages)].Role = "system" THEN messages[Len(messages)].Content
    ELSE AnthropicSystem(SubSeq(messages, 1, Len(messages) - 1))
AnthropicMaxTokens == 1024
\* AnthropicProvider.Generate: the request body
AnthropicRequest(cfg, messages) ==
    IF AnthropicSystem(messages) # <<>>
    THEN [api |-> "anthropic", model |-> cfg.Model, max_tokens |-> AnthropicMaxTokens,
          messages |-> AnthropicMessages(messages), system |-> AnthropicSystem(messages),
          tools |-> availableTools]
    ELSE [api |-> "anthropic", model |-> cfg.Model, max_tokens |-> AnthropicMaxTokens,
          messages |-> AnthropicMessages(messages), tools |-> availableTools]
\* the request body a.LLM.Generate(a.History, availableTools) sends
ProviderRequestByConfig(provider, messages) ==
    IF provider.Config.Provider = "anthropic"
    THEN AnthropicRequest(provider.Config, messages)
    ELSE OpenAIRequest(provider.Config, messages)
ProviderRequest(provider, messages) ==
    IF provider.variant = "anthropic"
    THEN AnthropicRequest(provider.Config, messages)
    ELSE OpenAIRequest(provider.Config, messages)
NoRequest == [api |-> "none"]
NoExchange == [kind |-> "none"]

\* json.Unmarshal of a tool call's arguments string: the decoded map, or a
\* nil map when the string is not JSON (the error is dropped)
JSONDecode(encoded) == IF "json" \in DOMAIN encoded THEN encoded.json ELSE <<>>
\* OpenAIProvider.Generate: the Usage of the response message
OpenAIUsage(usage) ==
    Usage(usage.prompt_tokens, usage.completion_tokens, usage.total_tokens)
\* OpenAIProvider.Generate: the message decoded from a 200 body with a choice
OpenAIDecode(body) ==
    LET choice == body.choices[1].message IN
    Message("assistant", choice.content,
            [j \in 1..Len(choice.tool_calls) |->
                ToolCall(choice.tool_calls[j].id, choice.tool_calls[j].function.name,
                         JSONDecode(choice.tool_calls[j].function.arguments))],
            NoID, Ptr(OpenAIUsage(body.usage)))
\* AnthropicProvider.Generate: the Usage of the response message
AnthropicUsageCopied(usage) == Usage(usage.input_tokens, usage.output_tokens, 0)
AnthropicUsage(usage) ==
    Usage(usage.input_tokens, usage.output_tokens, usage.input_tokens + usage.output_tokens)
\* the loop over result.Content: text blocks are concatenated, tool_use
\* blocks become ToolCalls
RECURSIVE AnthropicText(_)
AnthropicText(blocks) ==
    IF blocks = <<>> THEN <<>>
    ELSE (IF blocks[1].type = "text" THEN blocks[1].text ELSE <<>>)
         \o AnthropicText(Tail(blocks))
RECURSIVE AnthropicToolCalls(_)
AnthropicToolCalls(blocks) ==
    IF blocks = <<>> THEN <<>>
    ELSE (IF blocks[1].type = "tool_use"
          THEN <<ToolCall(blocks[1].id, blocks[1].name, blocks[1].input)>>
          ELSE <<>>)
         \o AnthropicToolCalls(Tail(blocks))
\* AnthropicProvider.Generate: the message decoded from a 200 body with content
AnthropicDecode(body) ==
    Message("assistant", AnthropicText(body.content), AnthropicToolCalls(body.content),
            NoID, Ptr(AnthropicUsage(body.usage)))
\* Generate of the adapter variant on a decodable 200 body
Decode(variant, body) ==
    IF variant = "anthropic" THEN AnthropicDecode(body) ELSE OpenAIDecode(body)

(***************************************************************************)
(* package ui: the value of the bubbletea model.  The fields that only     *)
(* serve rendering (viewport, help, spinner, width, height, ready) are     *)
(* left out.                                                               *)
(***************************************************************************)
availableCommands ==
    <<"/quit", "/exit", "/clear", "/new", "/reset", "/help", "/provider", "/model", "/status">>

\* tea.NewProgram(ui.InitialModel(agt)): m is the value InitialModel
\* returns and no command of the program is in flight; discarded records
\* that a key was pressed while the command in flight ran
NewProgram ==
    [m |-> [messages |-> <<>>, textArea |-> <<>>, quitting |-> FALSE, loading |-> FALSE,
            toolStatus |-> <<>>, showHelp |-> FALSE, lastUsage |-> Nil, totalTokens |-> 0,
            suggestions |-> <<>>, suggestionIdx |-> 0],
     cmds |-> <<>>,
     discarded |-> FALSE]

(***************************************************************************)
(* package agent.                                                          *)
(***************************************************************************)
VARIABLES
    LLM,            \* Agent.LLM: Nil or a pointer to a provider
    History,        \* Agent.History
    fs,             \* the file system the tools act on
    pc,             \* position of the GetResponse call: idle, generate, tools
    mode,           \* behaviour of the remote model during this turn
    i,              \* GetResponse: loop counter
    totalUsage,     \* GetResponse: totalUsage
    toolsUsed,      \* GetResponse: toolsUsed
    prevToolCalls,  \* GetResponse: prevToolCalls
    resp,           \* GetResponse: resp, the message being processed
    tcIdx,          \* GetResponse: position of the range loop over resp.ToolCalls
    ret,            \* the value returned by the most recent call on the Agent
    outcome,        \* how the most recent turn ended
    replies,        \* log: outcomes of the provider calls of the turn of ret
    executed,       \* log: tool calls executed in the turn of ret
    base,           \* log: Len(History) when the most recent turn began
    turns,          \* log: the turns recorded in History since New or ClearHistory
    recording,      \* whether this run records the request bodies it sends
    request,        \* the request body of the most recent provider call, if recorded
    exchange,       \* the HTTP exchange of the most recent provider call
    ui              \* the terminal program: its model and the commands in flight

vars == <<LLM, History, fs, pc, mode, i, totalUsage, toolsUsed, prevToolCalls,
          resp, tcIdx, ret, outcome, replies, executed, base, turns, recording,
          request, exchange, ui>>
locals == <<i, totalUsage, toolsUsed, prevToolCalls, resp, tcIdx>>

Response(content, usage, used) ==
    [op |-> "GetResponse", Content |-> content, Usage |-> usage, ToolsUsed |-> used]

SystemMessage == Message("system", systemPrompt, <<>>, NoID, Nil)
UserMessageAsSystem(input) == Message("system", input, <<>>, NoID, Nil)
UserMessage(input) == Message("user", input, <<>>, NoID, Nil)
ToolMessageNoID(result, id) == Message("tool", result, <<>>, NoID, Nil)
ToolMessage(result, id) == Message("tool", result, <<>>, id, Nil)
\* a.History = append(a.History, *resp)
AppendReplyUnlessFinal(h, m) == IF Len(m.ToolCalls) = 0 THEN h ELSE Append(h, m)
AppendReply(h, m) == Append(h, m)

\* log entries
Replied(m) == [ok |-> TRUE, msg |-> m]
Failed(e) == [ok |-> FALSE, msg |-> SystemMessage, err |-> e]
\* the log entry of the current turn after one more provider call
Logged(how) ==
    [turns EXCEPT ![Len(turns)] = [@ EXCEPT !.how = how, !.calls = @ + 1]]

\* the request body of a provider call on the messages h, as recorded
SentWithoutLast(h) ==
    IF recording THEN ProviderRequest(Deref(LLM), SubSeq(h, 1, Len(h) - 1)) ELSE NoRequest
Sent(h) == IF recording THEN ProviderRequest(Deref(LLM), h) ELSE NoRequest

\* New(llmProvider)
New(llmProvider) ==
    /\ LLM = llmProvider
    /\ History = <<SystemMessage>>

Init ==
    /\ \E p \in Providers : New(p)
    /\ fs = [p \in Paths |-> NoFile]
    /\ pc = "idle"
    /\ mode = "none"
    /\ i = 0
    /\ totalUsage = Usage(0, 0, 0)
    /\ toolsUsed = <<>>
    /\ prevToolCalls = <<>>
    /\ resp = SystemMessage
    /\ tcIdx = 0
    /\ ret = [op |-> "New"]
    /\ outcome = "none"
    /\ replies = <<>>
    /\ executed = <<>>
    /\ base = 1
    /\ turns = <<>>
    /\ recording = FALSE
    /\ request = NoRequest
    /\ exchange = NoExchange
    /\ ui = NewProgram

\* return r from GetResponse: its locals do not exist outside a call
Return(r, how) ==
    /\ ret' = r
    /\ outcome' = how
    /\ pc' = "idle"
    /\ mode' = "none"
    /\ i' = 0
    /\ totalUsage' = Usage(0, 0, 0)
    /\ toolsUsed' = <<>>
    /\ prevToolCalls' = <<>>
    /\ resp' = SystemMessage
    /\ tcIdx' = 0

\* the Response returned when no provider is configured
NoLLMResponseZeroUsage == Response(NoBrainMessage, Ptr(Usage(0, 0, 0)), <<>>)
NoLLMResponse == Response(NoBrainMessage, Nil, <<>>)

\* GetResponse, a.LLM == nil
NoBrain(input) ==
    /\ pc = "idle"
    /\ IsNil(LLM)
    /\ Return(NoLLMResponse, "nobrain")
    /\ replies' = <<>>
    /\ executed' = <<>>
    /\ base' = Len(History)
    /\ request' = NoRequest
    /\ exchange' = NoExchange
    /\ UNCHANGED <<recording, LLM, History, fs, turns>>
\* GetResponse called by a caller that is not the terminal program
GetResponseNoLLMAppends(input) ==
    /\ pc = "idle"
    /\ IsNil(LLM)
    /\ Len(History) <= MaxCfgHist
    /\ Return(NoLLMResponse, "nobrain")
    /\ History' = Append(History, UserMessage(input))
    /\ replies' = <<>>
    /\ executed' = <<>>
    /\ base' = Len(History)
    /\ request' = NoRequest
    /\ exchange' = NoExchange
    /\ UNCHANGED <<ui, recording, LLM, fs, turns>>
GetResponseNoLLM(input) ==
    /\ NoBrain(input)
    /\ UNCHANGED ui

\* GetResponse up to the loop: the user message is appended and the locals
\* are initialised
Enters(input, md) ==
    /\ pc = "idle"
    /\ ~IsNil(LLM)
    /\ input = NextInput(Len(turns))
    /\ Len(History) <= MaxHistStart
    /\ md \in {"counting", "listing"} => Len(History) <= MaxLongStart
    /\ History' = Append(History, UserMessage(input))
    /\ base' = Len(History)
    /\ totalUsage' = Usage(0, 0, 0)
    /\ toolsUsed' = <<>>
    /\ prevToolCalls' = <<>>
    /\ i' = 0
    /\ pc' = "generate"
    /\ mode' = md
    /\ ret' = [op |-> "pending"]
    /\ outcome' = "running"
    /\ replies' = <<>>
    /\ executed' = <<>>
    /\ turns' = Append(turns, [input |-> input, how |-> "running", calls |-> 0])
    /\ request' = NoRequest
    /\ exchange' = NoExchange
    /\ UNCHANGED <<recording, LLM, fs, resp, tcIdx>>
\* GetResponse called by a caller that is not the terminal program
GetResponseBeginKeepsLoopState(input, md) ==
    /\ pc = "idle"
    /\ ~IsNil(LLM)
    /\ input = NextInput(Len(turns))
    /\ Len(History) <= MaxHistStart
    /\ md \in {"counting", "listing"} => Len(History) <= MaxLongStart
    /\ History' = Append(History, UserMessage(input))
    /\ base' = Len(History)
    /\ totalUsage' = Usage(0, 0, 0)
    /\ toolsUsed' = <<>>
    /\ prevToolCalls' = LastRequest(History)
    /\ i' = 1
    /\ pc' = "generate"
    /\ mode' = md
    /\ ret' = [op |-> "pending"]
    /\ outcome' = "running"
    /\ replies' = <<>>
    /\ executed' = <<>>
    /\ turns' = Append(turns, [input |-> input, how |-> "running", calls |-> 0])
    /\ request' = NoRequest
    /\ exchange' = NoExchange
    /\ UNCHANGED <<ui, recording, LLM, fs, resp, tcIdx>>
GetResponseBegin(input, md) ==
    /\ Enters(input, md)
    /\ UNCHANGED ui

\* the loop condition i < 50
InBudgetOffByOne(n) == n <= MaxSteps
InBudget(n) == n < MaxSteps

\* the Response returned when Generate fails
ErrorResponseWithUsage(err, total, used) ==
    Response(<<"Error contacting the mainframe: ">> \o err, Ptr(total), used)
ErrorResponse(err, total, used) ==
    Response(<<"Error contacting the mainframe: ">> \o err, Nil, <<>>)

\* a.LLM.Generate returns an error
GenerateFailsAppends(x) ==
    /\ pc = "generate"
    /\ x \in Exchanges(mode, i, History)
    /\ ~IsNil(Generate(x).err)
    /\ request' = Sent(History)
    /\ exchange' = x
    /\ Return(ErrorResponse(Deref(Generate(x).err), totalUsage, toolsUsed), "error")
    /\ replies' = Append(replies, Failed(Deref(Generate(x).err)))
    /\ turns' = Logged("error")
    /\ History' = Append(History, Message("assistant", Deref(Generate(x).err), <<>>, NoID, Nil))
    /\ UNCHANGED <<ui, recording, LLM, fs, executed, base>>
GenerateFails(x) ==
    /\ pc = "generate"
    /\ x \in Exchanges(mode, i, History)
    /\ ~IsNil(Generate(x).err)
    /\ request' = Sent(History)
    /\ exchange' = x
    /\ Return(ErrorResponse(Deref(Generate(x).err), totalUsage, toolsUsed), "error")
    /\ replies' = Append(replies, Failed(Deref(Generate(x).err)))
    /\ turns' = Logged("error")
    /\ UNCHANGED <<ui, recording, LLM, History, fs, executed, base>>

\* totalUsage after folding in resp.Usage
AccumulateRederived(total, u) ==
    IF IsNil(u) THEN total
    ELSE Usage(total.PromptTokens + Deref(u).PromptTokens,
               total.CompletionTokens + Deref(u).CompletionTokens,
               total.TotalTokens + Deref(u).PromptTokens + Deref(u).CompletionTokens)
Accumulate(total, u) ==
    IF IsNil(u) THEN total
    ELSE Usage(total.PromptTokens + Deref(u).PromptTokens,
               total.CompletionTokens + Deref(u).CompletionTokens,
               total.TotalTokens + Deref(u).TotalTokens)

\* the loop check: i > 0 && reflect.DeepEqual(resp.ToolCalls, prevToolCalls)
LoopDetectedNever(n, calls, prev) == FALSE
LoopDetected(n, calls, prev) == n > 0 /\ DeepEqual(calls, prev)

\* the check len(resp.ToolCalls) == 0
IsFinalNever(m) == FALSE
IsFinalOrSingleCall(m) == Len(m.ToolCalls) <= 1
IsFinal(m) == Len(m.ToolCalls) = 0

\* the Responses of the three returns that carry usage and tools used
FinalResponseNoTools(m, total, used) == Response(m.Content, Ptr(total), <<>>)
FinalResponse(m, total, used) == Response(m.Content, Ptr(total), used)
LoopResponse(total, used) == Response(LoopMessage, Ptr(total), used)
ExhaustedResponseLoopText(total, used) == Response(LoopMessage, Ptr(total), used)
ExhaustedResponse(total, used) == Response(ExhaustedMessage, Ptr(total), used)

\* a.LLM.Generate returns the message m: usage is accumulated, m is
\* appended, and the loop returns or goes on to execute m's tool calls
GenerateReturnsStopFirst(x) ==
    /\ pc = "generate"
    /\ x \in Exchanges(mode, i, History)
    /\ IsNil(Generate(x).err)
    /\ request' = Sent(History)
    /\ exchange' = x
    /\ LET m == Deref(Generate(x).msg)
           total == Accumulate(totalUsage, m.Usage) IN
       /\ replies' = Append(replies, Replied(m))
       /\ IF IsFinal(m)
          THEN /\ Return(FinalResponse(m, total, toolsUsed), "final")
               /\ turns' = Logged("final")
               /\ History' = AppendReply(History, m)
          ELSE IF LoopDetected(i, m.ToolCalls, prevToolCalls)
          THEN /\ Return(LoopResponse(total, toolsUsed), "loop")
               /\ turns' = Logged("loop")
               /\ History' = History
          ELSE /\ totalUsage' = total
               /\ History' = AppendReply(History, m)
               /\ prevToolCalls' = m.ToolCalls
               /\ resp' = m
               /\ tcIdx' = 1
               /\ pc' = "tools"
               /\ turns' = Logged("running")
               /\ UNCHANGED <<i, toolsUsed, ret, outcome, mode>>
    /\ UNCHANGED <<ui, recording, LLM, fs, executed, base>>
GenerateReturns(x) ==
    /\ pc = "generate"
    /\ x \in Exchanges(mode, i, History)
    /\ IsNil(Generate(x).err)
    /\ request' = Sent(History)
    /\ exchange' = x
    /\ LET m == Deref(Generate(x).msg)
           total == Accumulate(totalUsage, m.Usage) IN
       /\ replies' = Append(replies, Replied(m))
       /\ History' = AppendReply(History, m)
       /\ IF IsFinal(m)
          THEN Return(FinalResponse(m, total, toolsUsed), "final") /\ turns' = Logged("final")
          ELSE IF LoopDetected(i, m.ToolCalls, prevToolCalls)
          THEN Return(LoopResponse(total, toolsUsed), "loop") /\ turns' = Logged("loop")
          ELSE /\ totalUsage' = total
               /\ prevToolCalls' = m.ToolCalls
               /\ resp' = m
               /\ tcIdx' = 1
               /\ pc' = "tools"
               /\ turns' = Logged("running")
               /\ UNCHANGED <<i, toolsUsed, ret, outcome, mode>>
    /\ UNCHANGED <<ui, recording, LLM, fs, executed, base>>

\* toolsUsed = append(toolsUsed, tc.Name), before the tool is looked up
TrackUsageFoundOnly(used, tc) ==
    IF IsNil(FindTool(tc.Name)) THEN used ELSE Append(used, tc.Name)
TrackUsage(used, tc) == Append(used, tc.Name)

\* the range loop over resp.ToolCalls has calls left after the one at idx
MoreCallsNever(calls, idx) == FALSE
MoreCalls(calls, idx) == idx < Len(calls)

\* one pass of the range loop over resp.ToolCalls; after the last call the
\* for loop increments i and either calls the provider again or falls out
ExecuteToolTransactional ==
    /\ pc = "tools"
    /\ LET tc == resp.ToolCalls[tcIdx]
           out == RunToolCall(tc, fs)
           used == TrackUsage(toolsUsed, tc)
       IN /\ History' = Append(History, ToolMessage(out.result, tc.ID))
          /\ fs' = IF IsNil(FindTool(tc.Name)) \/ ~IsNil(Execute(tc.Name, tc.Arguments, fs).err)
                   THEN [p \in Paths |-> NoFile]
                   ELSE out.fs
          /\ executed' = Append(executed, tc)
          /\ IF MoreCalls(resp.ToolCalls, tcIdx)
             THEN /\ tcIdx' = tcIdx + 1
                  /\ toolsUsed' = used
                  /\ UNCHANGED <<i, totalUsage, prevToolCalls, resp, pc, mode, ret, outcome, turns>>
             ELSE IF InBudget(i + 1)
             THEN /\ i' = i + 1
                  /\ pc' = "generate"
                  /\ toolsUsed' = used
                  /\ UNCHANGED <<totalUsage, prevToolCalls, resp, tcIdx, mode, ret, outcome, turns>>
             ELSE /\ Return(ExhaustedResponse(totalUsage, used), "exhausted")
                  /\ turns' = [turns EXCEPT ![Len(turns)].how = "exhausted"]
    /\ UNCHANGED <<ui, recording, LLM, replies, base, request, exchange>>
ExecuteTool ==
    /\ pc = "tools"
    /\ LET tc == resp.ToolCalls[tcIdx]
           out == RunToolCall(tc, fs)
           used == TrackUsage(toolsUsed, tc)
       IN /\ History' = Append(History, ToolMessage(out.result, tc.ID))
          /\ fs' = out.fs
          /\ executed' = Append(executed, tc)
          /\ IF MoreCalls(resp.ToolCalls, tcIdx)
             THEN /\ tcIdx' = tcIdx + 1
                  /\ toolsUsed' = used
                  /\ UNCHANGED <<i, totalUsage, prevToolCalls, resp, pc, mode, ret, outcome, turns>>
             ELSE IF InBudget(i + 1)
             THEN /\ i' = i + 1
                  /\ pc' = "generate"
                  /\ toolsUsed' = used
                  /\ UNCHANGED <<totalUsage, prevToolCalls, resp, tcIdx, mode, ret, outcome, turns>>
             ELSE /\ Return(ExhaustedResponse(totalUsage, used), "exhausted")
                  /\ turns' = [turns EXCEPT ![Len(turns)].how = "exhausted"]
    /\ UNCHANGED <<ui, recording, LLM, replies, base, request, exchange>>

\* any call other than GetResponse replaces the returned value
Returns(r) ==
    /\ ret' = r
    /\ replies' = <<>>
    /\ executed' = <<>>
    /\ request' = NoRequest
    /\ exchange' = NoExchange
    /\ UNCHANGED <<pc, mode, locals, outcome, base>>

\* ClearHistory
TruncateToNone(h) == <<>>
Truncate(h) == IF Len(h) > 0 THEN SubSeq(h, 1, 1) ELSE h
ClearHistory ==
    /\ pc = "idle"
    /\ History' = Truncate(History)
    /\ Returns([op |-> "ClearHistory"])
    /\ turns' = <<>>
    /\ UNCHANGED <<ui, recording, LLM, fs>>

\* SetProvider(provider)
SetProviderClears(provider) ==
    /\ pc = "idle"
    /\ Len(History) <= MaxCfgHist
    /\ LLM' = provider
    /\ History' = Truncate(History)
    /\ Returns([op |-> "void"])
    /\ UNCHANGED <<ui, recording, fs, turns>>
SetProvider(provider) ==
    /\ pc = "idle"
    /\ Len(History) <= MaxCfgHist
    /\ LLM' = provider
    /\ Returns([op |-> "void"])
    /\ UNCHANGED <<ui, recording, History, fs, turns>>

\* GetConfig
GetConfig ==
    /\ pc = "idle"
    /\ Len(History) <= MaxCfgHist
    /\ Returns([op |-> "GetConfig",
                Config |-> IF ~IsNil(LLM) THEN Deref(LLM).Config ELSE ZeroConfig])
    /\ UNCHANGED <<ui, recording, LLM, History, fs, turns>>

\* UpdateConfig(cfg): OpenAIProvider.UpdateConfig and
\* AnthropicProvider.UpdateConfig both store cfg and nothing else
UpdateConfigInstalls(cfg) ==
    /\ pc = "idle"
    /\ Len(History) <= MaxCfgHist
    /\ LLM' = IF ~IsNil(LLM) THEN Ptr([Deref(LLM) EXCEPT !.Config = cfg]) ELSE Ptr(NewProvider(cfg))
    /\ Returns([op |-> "UpdateConfig", cfg |-> cfg])
    /\ UNCHANGED <<ui, recording, History, fs, turns>>
UpdateConfig(cfg) ==
    /\ pc = "idle"
    /\ Len(History) <= MaxCfgHist
    /\ LLM' = IF ~IsNil(LLM) THEN Ptr([Deref(LLM) EXCEPT !.Config = cfg]) ELSE LLM
    /\ Returns([op |-> "UpdateConfig", cfg |-> cfg])
    /\ UNCHANGED <<ui, recording, History, fs, turns>>

Next ==
    \/ \E input \in Inputs : GetResponseNoLLM(input)
    \/ \E input \in Inputs, md \in {"scripted", "counting", "listing"} : GetResponseBegin(input, md)
    \/ \E x \in Exchanges(mode, i, History) : GenerateFails(x)
    \/ \E x \in Exchanges(mode, i, History) : GenerateReturns(x)
    \/ ExecuteTool
    \/ ClearHistory
    \/ \E p \in Providers : SetProvider(p)
    \/ GetConfig
    \/ \E cfg \in Configs : UpdateConfig(cfg)

Spec == Init /\ [][Next]_vars

(***************************************************************************)
(* The tools on their own: Execute called directly, as the tests of        *)
(* package tools do, on every file system of the bounds.                   *)
(***************************************************************************)
\* the first path holds any entry, the others nothing, a directory or a
\* file of at most one character
FileSystems ==
    LET Data == UNION {[1..n -> {"a", "b"}] : n \in 0..MaxData}
        Entries == {NoFile, Dir} \cup {File(d) : d \in Data}
        SmallEntries == {NoFile, Dir, File(<<>>), File(<<"a">>)}
    IN {f \in [Paths -> Entries] : \A p \in Paths : p # PathOrder[1] => f[p] \in SmallEntries}
\* the values an argument may hold: valid ones and one of the wrong type
Values(key) ==
    IF key \in {"path", "source", "destination"}
    THEN {JStr(p) : p \in Paths \cup {Cwd}} \cup {JNum(1)}
    ELSE IF key \in {"start_line", "end_line"}
    THEN {JNum(n) : n \in 0..2} \cup {JStr(<<"a">>)}
    ELSE IF key = "command"
    THEN {JStr(c) : c \in Commands} \cup {JNum(1)}
    ELSE {JStr(t) : t \in {<<>>, <<"a">>, <<"b">>, <<"a", "b">>}} \cup {JNum(1)}
\* every argument map over a subset of the tool's keys
Arguments(name) ==
    LET Keys == {r[1] : r \in Required(name)}
        AllValues == UNION {Values(k) : k \in {"path", "start_line", "command", "content"}}
    IN UNION {{a \in [S -> AllValues] : \A k \in S : a[k] \in Values(k)} : S \in SUBSET Keys}
ToolNames == {availableTools[k] : k \in 1..Len(availableTools)}

ToolInit ==
    /\ New(Nil)
    /\ fs \in FileSystems
    /\ pc = "idle"
    /\ mode = "none"
    /\ i = 0
    /\ totalUsage = Usage(0, 0, 0)
    /\ toolsUsed = <<>>
    /\ prevToolCalls = <<>>
    /\ resp = SystemMessage
    /\ tcIdx = 0
    /\ ret = [op |-> "New"]
    /\ outcome = "none"
    /\ replies = <<>>
    /\ executed = <<>>
    /\ base = 1
    /\ turns = <<>>
    /\ recording = FALSE
    /\ request = NoRequest
    /\ exchange = NoExchange
    /\ ui = NewProgram

\* tool.Execute(args), called directly; follows records that the previous
\* call wrote the file this call reads
ToolExecute(name, args) ==
    /\ LET out == Execute(name, args, fs)
           ReadsWritten ==
               /\ ret.op = "Execute" /\ ret.name = "write_file" /\ IsNil(ret.err)
               /\ name = "read_file" /\ HasString(args, "path")
               /\ args["path"] = ret.args["path"]
       IN
       /\ \A p \in DOMAIN out.fs : Len(out.fs[p].data) <= MaxData
       /\ fs' = out.fs
       /\ ret' = [op |-> "Execute", name |-> name, args |-> args,
                  result |-> out.result, err |-> out.err, spawned |-> out.spawned,
                  follows |-> ReadsWritten]
    /\ UNCHANGED <<LLM, History, pc, mode, locals, outcome, replies, executed, base,
                   turns, recording, request, exchange, ui>>

\* one call of any tool: every file system of the bounds is an initial
\* state, so one call from each covers every call on every file system
FirstCall(name, args) ==
    /\ ret.op = "New"
    /\ ToolExecute(name, args)
ToolNext == \E name \in ToolNames : \E args \in Arguments(name) : FirstCall(name, args)
ToolSpec == ToolInit /\ [][ToolNext]_vars

\* any sequence of write_file and read_file calls, from the file systems
\* in which only the first path may hold something
FileInit ==
    /\ ToolInit
    /\ \A p \in Paths : p # PathOrder[1] => fs[p] = NoFile
FileNext ==
    \E name \in {"write_file", "read_file"} : \E args \in Arguments(name) :
        ToolExecute(name, args)
FileSpec == FileInit /\ [][FileNext]_vars

\* the adapters on their own: Generate decodes one 200 body, as the tests of
\* package llm do with a test server
Bodies(variant) ==
    LET Tokens == 0..MaxTokens
        WireCall == ToolCall(101, "read_file", [path |-> thePath])
    IN IF variant = "anthropic"
       THEN {[content |-> b, usage |-> [input_tokens |-> p, output_tokens |-> q]] :
                b \in {<<TextBlock(<<"done">>)>>, <<ToolUseBlock(WireCall)>>,
                       <<TextBlock(<<"a">>), ToolUseBlock(WireCall), TextBlock(<<"b">>)>>},
                p \in Tokens, q \in Tokens}
       ELSE {[choices |-> <<[message |-> [content |-> c, tool_calls |-> t]]>>,
              usage |-> [prompt_tokens |-> p, completion_tokens |-> q, total_tokens |-> r]] :
                c \in {<<>>, <<"done">>},
                t \in {<<>>, <<OpenAIToolCall(WireCall)>>,
                       <<[id |-> 101, type |-> "function",
                          function |-> [name |-> "read_file", arguments |-> [text |-> <<"{">>]]]>>},
                p \in Tokens, q \in Tokens, r \in Tokens}
\* p.Generate(messages, tools) against a server that answers 200 with body
GenerateDecodes(variant, body) ==
    /\ ret.op = "New"
    /\ ret' = [op |-> "Generate", variant |-> variant, body |-> body,
               msg |-> Decode(variant, body)]
    /\ UNCHANGED <<LLM, History, fs, pc, mode, locals, outcome, replies, executed, base,
                   turns, recording, request, exchange, ui>>
DecodeNext ==
    \E variant \in {"openai", "anthropic"} : \E body \in Bodies(variant) :
        GenerateDecodes(variant, body)
DecodeSpec == Init /\ [][DecodeNext]_vars

\* every step of a running turn: the provider call returns and the tool
\* execution returns
TurnStep ==
    \/ \E x \in Exchanges(mode, i, History) : GenerateFails(x)
    \/ \E x \in Exchanges(mode, i, History) : GenerateReturns(x)
    \/ ExecuteTool
\* the turns of an Agent whose provider was fixed by New, each begun on a
\* History of at most MaxLongStart messages
GetResponseBeginShort(input, md) ==
    /\ Len(History) <= MaxLongStart
    /\ GetResponseBegin(input, md)
TurnNext ==
    \/ \E input \in Inputs : GetResponseNoLLM(input)
    \/ \E input \in Inputs, md \in {"scripted", "counting", "listing"} : GetResponseBeginShort(input, md)
    \/ \E x \in Exchanges(mode, i, History) : GenerateFails(x)
    \/ \E x \in Exchanges(mode, i, History) : GenerateReturns(x)
    \/ ExecuteTool
    \/ ClearHistory
LiveSpec == Init /\ [][TurnNext]_vars /\ WF_vars(TurnStep)

\* the same turns, with the request bodies recorded
RecordingInit ==
    /\ \E p \in Providers : New(p)
    /\ fs = [p \in Paths |-> NoFile]
    /\ pc = "idle"
    /\ mode = "none"
    /\ i = 0
    /\ totalUsage = Usage(0, 0, 0)
    /\ toolsUsed = <<>>
    /\ prevToolCalls = <<>>
    /\ resp = SystemMessage
    /\ tcIdx = 0
    /\ ret = [op |-> "New"]
    /\ outcome = "none"
    /\ replies = <<>>
    /\ executed = <<>>
    /\ base = 1
    /\ turns = <<>>
    /\ recording = TRUE
    /\ request = NoRequest
    /\ exchange = NoExchange
    /\ ui = NewProgram
\* recorded turns run against the scripted and the listing service
AdapterNext ==
    \/ \E input \in Inputs : GetResponseNoLLM(input)
    \/ \E input \in Inputs, md \in {"scripted", "listing"} : GetResponseBeginShort(input, md)
    \/ \E x \in Exchanges(mode, i, History) : GenerateFails(x)
    \/ \E x \in Exchanges(mode, i, History) : GenerateReturns(x)
    \/ ExecuteTool
    \/ ClearHistory
AdapterSpec == RecordingInit /\ [][AdapterNext]_vars

(***************************************************************************)
(* package ui: model.Update, one action per message it handles, and the    *)
(* commands it returns.  The runtime runs each returned command in a       *)
(* goroutine of its own and hands the message it yields to Update; Update  *)
(* calls are sequential.  spinner.TickMsg, tea.WindowSizeMsg and the mouse *)
(* only reach the fields left out of the model value.                      *)
(***************************************************************************)
IsCommand(input) == \E k \in DOMAIN availableCommands : input = <<availableCommands[k]>>

\* m.updateSuggestions(): strings.HasPrefix(input, "/") and
\* strings.HasPrefix(cmd, input) on the lines the user types
updateSuggestions(m) ==
    LET input == m.textArea
        BeginsWithSlash == input # <<>> /\ (input = <<"/he">> \/ IsCommand(<<input[1]>>))
        HasPrefix(cmd) == input = <<cmd>> \/ (input = <<"/he">> /\ cmd = "/help")
    IN IF ~BeginsWithSlash
       THEN [m EXCEPT !.suggestions = <<>>, !.suggestionIdx = 0]
       ELSE [m EXCEPT !.suggestions = SelectSeq(availableCommands, HasPrefix),
                      !.suggestionIdx = 0]

\* the loop of the responseMsg case that drops leading blanks
RECURSIVE StripLeading(_)
StripLeading(content) ==
    IF Len(content) > 0 /\ content[1] \in {" ", "\t", "\n"}
    THEN StripLeading(Tail(content))
    ELSE content

\* return m, tea.Batch(cmds...)
Updated(m, started) ==
    ui' = [ui EXCEPT !.m = m, !.cmds = @ \o started]
\* the handler makes no call on the Agent
NoAgentCall ==
    UNCHANGED <<LLM, History, fs, pc, mode, locals, ret, outcome, replies, executed, base,
                turns, recording, request, exchange>>
\* m.messages = append(m.messages, line)
Shown(m, line) == [m EXCEPT !.messages = Append(@, line)]

\* case "enter", from the slash commands on: input is submitted.  The
\* handler calls m.agent.ClearHistory(), m.agent.GetConfig() and
\* m.agent.UpdateConfig(cfg) itself and returns the commands
\* getAgentResponse(input) and fetchModelsCmd()
Submit(m, input) ==
    LET Emptied(n) == [n EXCEPT !.textArea = <<>>]
        AgentConfig == IF ~IsNil(LLM) THEN Deref(LLM).Config ELSE ZeroConfig
        CallsUpdateConfig(cfg) ==
            /\ LLM' = IF ~IsNil(LLM) THEN Ptr([Deref(LLM) EXCEPT !.Config = cfg]) ELSE LLM
            /\ Returns([op |-> "UpdateConfig", cfg |-> cfg])
            /\ UNCHANGED <<recording, History, fs, turns>>
    IN
    IF input = <<>>
    THEN Updated(m, <<>>) /\ NoAgentCall
    ELSE IF input \in {<<"/quit">>, <<"/exit">>}
    THEN Updated([m EXCEPT !.quitting = TRUE], <<>>) /\ NoAgentCall
    ELSE IF input \in {<<"/clear">>, <<"/new">>, <<"/reset">>}
    THEN /\ Updated([m EXCEPT !.messages = <<>>, !.textArea = <<>>], <<>>)
         /\ History' = Truncate(History)
         /\ Returns([op |-> "ClearHistory"])
         /\ turns' = <<>>
         /\ UNCHANGED <<recording, LLM, fs>>
    ELSE IF input[1] = "/provider"
    THEN IF Len(input) > 1
         THEN /\ Updated(Emptied(Shown(m, <<"Provider set to: ", input[2]>>)), <<>>)
              /\ CallsUpdateConfig([AgentConfig EXCEPT !.Provider = input[2]])
         ELSE /\ Updated(Emptied(Shown(m, <<"Available providers: openai, anthropic">>)), <<>>)
              /\ NoAgentCall
    ELSE IF input[1] = "/model"
    THEN IF Len(input) > 1
         THEN /\ Updated(Emptied(Shown(m, <<"Model set to: ", input[2]>>)), <<>>)
              /\ CallsUpdateConfig([AgentConfig EXCEPT !.Model = input[2]])
         ELSE /\ Updated([m EXCEPT !.loading = TRUE, !.toolStatus = <<"Fetching models...">>],
                         <<[kind |-> "FetchModels", input |-> <<>>, at |-> "running"]>>)
              /\ NoAgentCall
    ELSE IF input = <<"/help">>
    THEN Updated(Emptied([m EXCEPT !.showHelp = ~@]), <<>>) /\ NoAgentCall
    ELSE IF input = <<"/status">>
    THEN /\ Updated(Emptied(Shown(m, <<"CONFIG STATUS">>)), <<>>)
         /\ Returns([op |-> "GetConfig", Config |-> AgentConfig])
         /\ UNCHANGED <<recording, LLM, History, fs, turns>>
    ELSE /\ Updated([Shown(m, <<"[You] ">> \o input) EXCEPT !.textArea = <<>>,
                                                            !.loading = TRUE,
                                                            !.toolStatus = <<"Thinking...">>],
                    <<[kind |-> "GetResponse", input |-> input, at |-> "queued"]>>)
         /\ NoAgentCall

\* the check at the head of case tea.KeyMsg
DiscardsNothing(m) == FALSE
Discards(m) == m.loading

\* Update(msg), msg a tea.KeyMsg of a key with a case of its own.  The user
\* presses enter on a line that adds to the conversation view only while
\* the view holds at most MaxMessages messages, and sends a message on a
\* fresh History, in the order of the inputs, before the session has used
\* any token
KeyMsg(key) ==
    LET m == ui.m
        Housekeeping ==
            {<<>>, <<"/he">>, <<"/quit">>, <<"/exit">>, <<"/clear">>, <<"/new">>, <<"/reset">>,
             <<"/help">>}
        Sendable ==
            /\ Len(History) <= MaxLongStart
            /\ m.totalTokens = 0
            /\ ~IsNil(LLM) => m.textArea = NextInput(Len(turns))
        Submittable ==
            \/ m.textArea \in Housekeeping
            \/ /\ Len(m.messages) <= MaxMessages
               /\ m.textArea = <<"hello">> => Sendable
        \* the suggestion under the cursor replaces the input
        SelectSuggestion ==
            updateSuggestions([m EXCEPT !.textArea = <<m.suggestions[m.suggestionIdx + 1]>>,
                                        !.suggestions = <<>>,
                                        !.suggestionIdx = 0])
    IN
    /\ ~m.quitting
    /\ key = "enter" => Submittable
    /\ IF Discards(m)
       THEN ui' = [ui EXCEPT !.discarded = TRUE] /\ NoAgentCall
       ELSE IF key \in {"ctrl+c", "esc"}
            THEN IF ~m.loading
                 THEN Updated([m EXCEPT !.quitting = TRUE], <<>>) /\ NoAgentCall
                 ELSE Updated(m, <<>>) /\ NoAgentCall
            ELSE IF key = "?"
            THEN Updated([m EXCEPT !.showHelp = ~@], <<>>) /\ NoAgentCall
            ELSE IF key = "up" /\ Len(m.suggestions) > 0
            THEN /\ Updated([m EXCEPT !.suggestionIdx =
                                IF @ - 1 < 0 THEN Len(m.suggestions) - 1 ELSE @ - 1], <<>>)
                 /\ NoAgentCall
            ELSE IF key = "down" /\ Len(m.suggestions) > 0
            THEN /\ Updated([m EXCEPT !.suggestionIdx =
                                IF @ + 1 >= Len(m.suggestions) THEN 0 ELSE @ + 1], <<>>)
                 /\ NoAgentCall
            ELSE IF key = "tab" /\ Len(m.suggestions) > 0
            THEN Updated(SelectSuggestion, <<>>) /\ NoAgentCall
            ELSE IF key = "enter"
            THEN IF Len(m.suggestions) > 0
                 THEN IF ~IsCommand(m.textArea)
                      THEN Updated(SelectSuggestion, <<>>) /\ NoAgentCall
                      ELSE Submit([m EXCEPT !.suggestions = <<>>, !.suggestionIdx = 0],
                                  m.textArea)
                 ELSE Submit(m, m.textArea)
            ELSE Updated(m, <<>>) /\ NoAgentCall

\* Update(msg), msg the tea.KeyMsg of typed text: the default case, after
\* which the text area holds the line text
Runes(text) ==
    /\ ~ui.m.quitting
    /\ IF Discards(ui.m)
       THEN ui' = [ui EXCEPT !.discarded = TRUE] /\ NoAgentCall
       ELSE Updated(updateSuggestions([ui.m EXCEPT !.textArea = text]), <<>>) /\ NoAgentCall

\* the goroutine of a getAgentResponse command calls m.agent.GetResponse
RunsGetResponse(k) ==
    /\ ui.cmds[k].kind = "GetResponse"
    /\ ui.cmds[k].at = "queued"
    /\ \/ NoBrain(ui.cmds[k].input)
       \/ Enters(ui.cmds[k].input, "scripted")
    /\ ui' = [ui EXCEPT !.cmds[k].at = "running"]

\* Update(msg), msg the responseMsg of the command k, whose GetResponse
\* has returned
ResponseMsg(k) ==
    /\ ~ui.m.quitting
    /\ ui.cmds[k].kind = "GetResponse"
    /\ ui.cmds[k].at = "running"
    /\ pc = "idle"
    /\ ret.op = "GetResponse"
    /\ LET m1 == [ui.m EXCEPT !.loading = FALSE, !.toolStatus = <<>>]
           m2 == IF Len(ret.ToolsUsed) > 0
                 THEN Shown(m1, <<"Tools used: ">> \o ret.ToolsUsed)
                 ELSE m1
           m3 == Shown(m2, <<"[Clippy] ">> \o StripLeading(ret.Content))
           m4 == IF ~IsNil(ret.Usage)
                 THEN [m3 EXCEPT !.totalTokens = @ + Deref(ret.Usage).TotalTokens,
                                 !.lastUsage = Ptr(ret)]
                 ELSE m3
       IN ui' = [m |-> m4,
                 cmds |-> SubSeq(ui.cmds, 1, k - 1) \o SubSeq(ui.cmds, k + 1, Len(ui.cmds)),
                 discarded |-> FALSE]
    /\ NoAgentCall

\* Update(msg), msg the modelsMsg of the command k, which carries what
\* llm.FetchModels returned
ModelsMsg(k, fetched) ==
    /\ ~ui.m.quitting
    /\ ui.cmds[k].kind = "FetchModels"
    /\ LET m1 == [ui.m EXCEPT !.loading = FALSE, !.toolStatus = <<>>]
           m2 == IF ~IsNil(fetched.err)
                 THEN Shown(m1, <<"Error fetching models: ">> \o Deref(fetched.err))
                 ELSE Shown(m1, <<"Available models: ">> \o fetched.models)
       IN ui' = [m |-> m2,
                 cmds |-> SubSeq(ui.cmds, 1, k - 1) \o SubSeq(ui.cmds, k + 1, Len(ui.cmds)),
                 discarded |-> FALSE]
    /\ NoAgentCall

\* the program of main: the user's keys and typed lines, the commands and
\* the turn they run
UINext ==
    \/ \E key \in {"ctrl+c", "esc", "?", "up", "down", "tab", "enter", "ctrl+enter"} :
            KeyMsg(key)
    \/ \E text \in {<<"hello">>, <<"/he">>, <<"/clear">>, <<"/model">>,
                    <<"/provider", "anthropic">>} :
            Runes(text)
    \/ \E k \in DOMAIN ui.cmds : RunsGetResponse(k)
    \/ \E k \in DOMAIN ui.cmds : ResponseMsg(k)
    \/ \E k \in DOMAIN ui.cmds :
            \E fetched \in {[models |-> <<"gpt", "claude">>, err |-> Nil],
                            [models |-> <<>>, err |-> Ptr(<<"failed to fetch models">>)]} :
                ModelsMsg(k, fetched)
    \/ \E x \in Exchanges(mode, i, History) : GenerateFails(x)
    \/ \E x \in Exchanges(mode, i, History) : GenerateReturns(x)
    \/ ExecuteTool
UISpec == Init /\ [][UINext]_vars

(***************************************************************************)
(* Vocabulary of the properties.                                           *)
(***************************************************************************)
\* a turn has returned and its Response is in ret
Returned == pc = "idle" /\ ret.op = "GetResponse"
\* the successful provider calls of the logged turn, in call order
RECURSIVE Successful(_)
Successful(log) ==
    IF log = <<>> THEN <<>>
    ELSE IF log[1].ok THEN <<log[1].msg>> \o Successful(Tail(log))
    ELSE Successful(Tail(log))
\* component-wise sum of the usages of a sequence of messages
RECURSIVE SumField(_, _)
SumField(msgs, field) ==
    IF msgs = <<>> THEN 0
    ELSE (IF msgs[1].Usage = <<>> THEN 0 ELSE msgs[1].Usage[1][field])
         + SumField(Tail(msgs), field)
SumUsage(msgs) ==
    [PromptTokens |-> SumField(msgs, "PromptTokens"),
     CompletionTokens |-> SumField(msgs, "CompletionTokens"),
     TotalTokens |-> SumField(msgs, "TotalTokens")]
\* the tool calls requested by a sequence of messages, in request order
RECURSIVE Requested(_)
Requested(msgs) ==
    IF msgs = <<>> THEN <<>> ELSE msgs[1].ToolCalls \o Requested(Tail(msgs))
NamesOf(calls) == [k \in 1..Len(calls) |-> calls[k].Name]
\* every provider call of the log succeeded with a non-empty tool request
AllToolRequests(log) ==
    \A k \in 1..Len(log) : log[k].ok /\ Len(log[k].msg.ToolCalls) > 0
\* two requests name the same tools with the same arguments in the same order
SameToolsAndArguments(a, b) ==
    /\ Len(a) = Len(b)
    /\ \A k \in 1..Len(a) : a[k].Name = b[k].Name /\ a[k].Arguments = b[k].Arguments
ToolMessagesIn(h) == Len(SelectSeq(h, LAMBDA m : m.Role = "tool"))

(***************************************************************************)
(* C1.  Every GetResponse call on an Agent with a provider returns a       *)
(* Response, and it does so after at most 50 provider calls, whatever the  *)
(* provider answers, given that each provider call and each tool           *)
(* execution returns (LiveSpec).                                           *)
(***************************************************************************)
\* C1: every turn returns, after at most 50 provider calls
C1_ReturnsWithin50Calls ==
    /\ [](Len(replies) <= 50)
    /\ [](Returned /\ outcome # "nobrain" => Len(replies) \in 1..50)
    /\ (pc # "idle") ~> Returned
C1_Witness == Returned /\ Len(replies) = 50 /\ outcome = "final"

(***************************************************************************)
(* C2.  A turn in which every provider call is answered by a non-empty     *)
(* tool request, no two consecutive requests identical, makes exactly 50   *)
(* provider calls, executes the tool calls of all 50 requests and returns  *)
(* the exhaustion message, which differs from the loop message, with the   *)
(* accumulated usage and tools used.                                       *)
(***************************************************************************)
C2_Premise ==
    /\ Returned
    /\ replies # <<>>
    /\ AllToolRequests(replies)
    /\ \A k \in 2..Len(replies) : replies[k].msg.ToolCalls # replies[k-1].msg.ToolCalls
RepeatsAt(k) ==
    /\ k \in 2..Len(replies)
    /\ replies[k].ok /\ replies[k-1].ok
    /\ Len(replies[k].msg.ToolCalls) > 0
    /\ replies[k].msg.ToolCalls = replies[k-1].msg.ToolCalls
\* C3: an identical consecutive request stops the turn with the loop message, unexecuted
C3_RepeatedRequestStops ==
    \A k \in 2..Len(replies) :
        RepeatsAt(k) =>
            /\ k = Len(replies)
            /\ Returned
            /\ ret.Content = LoopMessage
            /\ executed = Requested(SubSeq(Successful(replies), 1, k - 1))
            /\ History[Len(History)] = replies[k].msg
            /\ ToolMessagesIn(SubSeq(History, base + 1, Len(History))) = Len(executed)
            /\ ret.ToolsUsed = NamesOf(executed)
            /\ ret.Usage = <<SumUsage(Successful(replies))>>
C3_Witness ==
    /\ RepeatsAt(Len(replies))
    /\ Len(replies[Len(replies)].msg.ToolCalls) = 3
    /\ outcome = "loop"

(***************************************************************************)
(* C4.  On any iteration after the first, a request naming the same tools  *)
(* with the same arguments in the same order as the request of the         *)
(* preceding iteration stops the turn with the loop message.               *)
(***************************************************************************)
\* C4: same tools, arguments and order as the preceding request stops the turn
C4_SameToolsAndArgumentsStop ==
    \A k \in 2..Len(replies) :
        ( /\ replies[k].ok /\ replies[k-1].ok
          /\ Len(replies[k].msg.ToolCalls) > 0
          /\ SameToolsAndArguments(replies[k].msg.ToolCalls, replies[k-1].msg.ToolCalls) )
        => (k = Len(replies) /\ Returned /\ ret.Content = LoopMessage)

(***************************************************************************)
(* C5.  When the provider call of iteration k fails, the turn returns at   *)
(* once a Response whose content describes the failure and whose usage is  *)
(* present and is the sum of the usages of the k-1 earlier calls.          *)
(***************************************************************************)
\* C5: a failed provider call returns the usage accumulated before it
C5_FailureKeepsUsage ==
    \A k \in 1..Len(replies) :
        ~replies[k].ok =>
            /\ k = Len(replies)
            /\ Returned
            /\ ret.Content = <<"Error contacting the mainframe: ">> \o replies[k].err
            /\ executed = Requested(Successful(replies))
            /\ ret.Usage # <<>>
            /\ ret.Usage = <<SumUsage(Successful(replies))>>

(***************************************************************************)
(* C6.  The usage returned by a turn that made k successful provider calls *)
(* is, field by field, the sum of the usages those k calls reported (the   *)
(* total summed from the reported totals), and holds nothing of earlier    *)
(* turns.                                                                  *)
(***************************************************************************)
\* C6: the returned usage is the field-wise sum over the turn's successful calls
C6_UsageIsSumOfCalls ==
    (Returned /\ outcome # "nobrain") =>
        ret.Usage = <<SumUsage(Successful(replies))>>

(***************************************************************************)
(* C7.  A provider response without tool calls ends the turn: no further   *)
(* provider call, no tool execution, and the Response carries that         *)
(* response's content with the usage and tools used accumulated so far.    *)
(***************************************************************************)
\* C7: a response without tool calls ends the turn with its content
C7_FinalAnswerStops ==
    \A k \in 1..Len(replies) :
        (replies[k].ok /\ Len(replies[k].msg.ToolCalls) = 0) =>
            /\ k = Len(replies)
            /\ Returned
            /\ ret.Content = replies[k].msg.Content
            /\ History[Len(History)] = replies[k].msg
            /\ executed = Requested(Successful(replies))
            /\ ret.Usage = <<SumUsage(Successful(replies))>>
            /\ ret.ToolsUsed = NamesOf(executed)
C7_Witness ==
    /\ outcome = "final" /\ Returned
    /\ Len(replies) = 3
    /\ Len(executed) = 4
    /\ ret.Usage = <<Usage(7, 5, 14)>>

(***************************************************************************)
(* C8.  GetResponse on an Agent without provider returns, for every input, *)
(* the fixed no-brain message with no usage, calls no provider and         *)
(* executes no tool.                                                       *)
(***************************************************************************)
\* C8: without provider GetResponse returns the no-brain message and no usage
C8_NoProviderNoBrain ==
    /\ (pc # "idle" => LLM # <<>>)
    /\ (Returned /\ LLM = <<>>) =>
          /\ ret.Content = NoBrainMessage
          /\ ret.Usage = <<>>
          /\ ret.ToolsUsed = <<>>
          /\ replies = <<>>
          /\ executed = <<>>
          /\ outcome = "nobrain"
C8_Witness == Returned /\ LLM = <<>> /\ Len(History) > 1 /\ outcome = "nobrain"

(***************************************************************************)
(* C9.  History is never empty, its first element is the system message    *)
(* seeded by New, and no other element has role system.                    *)
(***************************************************************************)
\* C9: History is non-empty and starts with the only system message
C9_HistoryStartsWithSystem ==
    /\ Len(History) >= 1
    /\ History[1] = [Role |-> "system", Content |-> systemPrompt, ToolCalls |-> <<>>,
                     ToolCallID |-> 0, Usage |-> <<>>]
    /\ \A k \in 2..Len(History) : History[k].Role # "system"
C9_Witness ==
    /\ ret.op = "UpdateConfig"
    /\ Len(History) = 2
    /\ outcome = "error"

(***************************************************************************)
(* C10.  After ClearHistory, whatever turn came before, History is exactly *)
(* the system message seeded by New; the next GetResponse appends from     *)
(* position 2 and History then holds only the messages of that turn.       *)
(***************************************************************************)
\* C10: ClearHistory leaves exactly the seeded system message
C10_ClearHistoryRestores ==
    /\ ret.op = "ClearHistory" =>
          History = <<[Role |-> "system", Content |-> systemPrompt, ToolCalls |-> <<>>,
                       ToolCallID |-> 0, Usage |-> <<>>]>>
    /\ (base = 1 /\ outcome \notin {"none", "nobrain"} /\ ret.op \in {"pending", "GetResponse"}) =>
          /\ Len(History) = 2 + Len(Successful(replies)) + Len(executed)
          /\ History[2].Role = "user"
          /\ \A k \in 3..Len(History) :
                \/ History[k].Role = "assistant" /\ [ok |-> TRUE, msg |-> History[k]] \in
                       {replies[j] : j \in 1..Len(replies)}
                \/ History[k].Role = "tool" /\ History[k].ToolCallID \in
                       {executed[j].ID : j \in 1..Len(executed)}
C10_Witness ==
    /\ ret.op = "ClearHistory"
    /\ outcome = "loop"

(***************************************************************************)
(* C11.  After N turns on a fresh Agent, each answered by one reply        *)
(* without tool calls, History holds 1 + 2N messages: the system message,  *)
(* then N (user, assistant) pairs in call order, the i-th user message     *)
(* carrying the i-th input.                                                *)
(***************************************************************************)
AllPlainTurns == \A k \in 1..Len(turns) : turns[k].how = "final" /\ turns[k].calls = 1
\* C11: N plain turns leave the system message and N (user, assistant) pairs
C11_PlainTurnsAlternate ==
    (pc = "idle" /\ AllPlainTurns) =>
        /\ Len(History) = 1 + 2 * Len(turns)
        /\ History[1].Role = "system"
        /\ \A k \in 1..Len(turns) :
            /\ History[2 * k] = UserMessage(turns[k].input)
            /\ History[2 * k + 1].Role = "assistant"
            /\ Len(History[2 * k + 1].ToolCalls) = 0
C11_Witness ==
    /\ pc = "idle" /\ AllPlainTurns
    /\ Len(turns) = 2 /\ turns[1].input # turns[2].input
    /\ Len(History) = 5

(***************************************************************************)
(* C12.  A tool call that fails, or that names no registered tool, does    *)
(* not end the turn: a tool message with the error text (the not-found     *)
(* text) and the call's id is appended, the remaining calls of the reply   *)
(* are executed, and the provider is called again.  As stated this fails   *)
(* for the calls of the 50th reply, after which the turn returns; the      *)
(* amended statement excepts them.                                         *)
(***************************************************************************)
\* the tool call the range loop is about to execute fails
CallFails(tc) ==
    \/ IsNil(FindTool(tc.Name))
    \/ ~IsNil(Execute(tc.Name, tc.Arguments, fs).err)
\* the text recorded for a failing call
FailureText(tc) ==
    IF IsNil(FindTool(tc.Name)) THEN <<"Tool not found: ", tc.Name>>
    ELSE <<"Error executing tool: ">> \o Deref(Execute(tc.Name, tc.Arguments, fs).err)
\* the tool message of a failing call is appended and the range loop goes on
FailureRecorded(tc) ==
    /\ History' = Append(History, Message("tool", FailureText(tc), <<>>, tc.ID, Nil))
    /\ tcIdx < Len(resp.ToolCalls) => (pc' = "tools" /\ tcIdx' = tcIdx + 1 /\ resp' = resp)
\* C12 (amended): a failing call is recorded and, unless it is the last call
\* of the 50th reply, the turn goes on to the next call or the next provider call
C12_FailingCallContinuesInBudget ==
    [][(pc = "tools" /\ CallFails(resp.ToolCalls[tcIdx])) =>
        /\ FailureRecorded(resp.ToolCalls[tcIdx])
        /\ (tcIdx = Len(resp.ToolCalls) /\ i + 1 < MaxSteps) => (pc' = "generate" /\ i' = i + 1)
        /\ (tcIdx = Len(resp.ToolCalls) /\ i + 1 >= MaxSteps) =>
              (pc' = "idle" /\ ret'.Content = ExhaustedMessage)]_vars
\* C12 (as stated): a failing call is recorded and the turn always goes on
\* to the next call or the next provider call
C12_FailingCallContinues ==
    [][(pc = "tools" /\ CallFails(resp.ToolCalls[tcIdx])) =>
        /\ FailureRecorded(resp.ToolCalls[tcIdx])
        /\ tcIdx = Len(resp.ToolCalls) => (pc' = "generate" /\ i' = i + 1)]_vars
\* both failing calls of ReqMany are recorded and the provider is called again
C12_Witness ==
    /\ pc = "generate" /\ i = 1 /\ executed = ReqMany
    /\ History[Len(History) - 1] = ToolMessage(<<"Tool not found: ", "bogus">>, 104)
    /\ History[Len(History)] =
         ToolMessage(<<"Error executing tool: ">> \o MissingArg("content"), 105)

(***************************************************************************)
(* C13.  Every tool message answers exactly one tool call of the nearest   *)
(* assistant message before it, and only tool messages lie between the     *)
(* two.                                                                    *)
(***************************************************************************)
\* position a holds the nearest assistant message before position k, and
\* only tool messages lie between the two
AnsweredFrom(h, a, k) ==
    /\ h[a].Role = "assistant"
    /\ \A b \in (a + 1)..(k - 1) : h[b].Role = "tool"
\* exactly one of the calls has the id
OneCallHasID(calls, id) ==
    \E j \in 1..Len(calls) :
        /\ calls[j].ID = id
        /\ \A n \in 1..Len(calls) : n # j => calls[n].ID # id
ListingScenario ==
    /\ Len(replies) >= 2
    /\ replies[1].ok /\ NamesOf(replies[1].msg.ToolCalls) = <<"list_directory">>
    /\ replies[2].ok /\ Len(replies[2].msg.ToolCalls) = 0
\* C14: the list_directory scenario ends after two calls with four new messages
C14_ListDirectoryTurn ==
    ListingScenario =>
        /\ Len(replies) = 2
        /\ Returned
        /\ Len(History) = base + 4
        /\ History[base + 1] = UserMessage(turns[Len(turns)].input)
        /\ History[base + 2] = replies[1].msg
        /\ History[base + 3].Role = "tool"
        /\ History[base + 3].ToolCallID = replies[1].msg.ToolCalls[1].ID
        /\ History[base + 3].Content =
             <<"Contents of ">> \o Cwd \o <<":\n">> \o EntryLines(fs, PathOrder, 1)
        /\ History[base + 4] = replies[2].msg
        /\ ret.Content = replies[2].msg.Content
        /\ ret.ToolsUsed = <<"list_directory">>
C14_Witness == ListingScenario /\ Returned /\ ret.Content = <<"two files">>

(***************************************************************************)
(* C15.  The Anthropic adapter sends each maximal run of consecutive tool  *)
(* messages as one user message holding one tool_result block per tool     *)
(* message, in order, keyed by tool_call_id; the outbound messages number  *)
(* the non-system non-tool messages plus the runs.                         *)
(***************************************************************************)
\* the positions at which a maximal run of tool messages starts
RunStarts(h) ==
    {k \in 1..Len(h) : h[k].Role = "tool" /\ (k = 1 \/ h[k - 1].Role # "tool")}
\* the last position of the run that starts at s
RunLast(h, s) ==
    CHOOSE e \in s..Len(h) :
        /\ \A k \in s..e : h[k].Role = "tool"
        /\ (e = Len(h) \/ h[e + 1].Role # "tool")
PlainPositions(h) == {k \in 1..Len(h) : h[k].Role \notin {"system", "tool"}}
\* the outbound position of what starts at position s of h
OutboundPosition(h, s) ==
    Cardinality({k \in PlainPositions(h) : k < s})
    + Cardinality({r \in RunStarts(h) : r < s}) + 1
RunsMerged(h, out) ==
    /\ Len(out) = Cardinality(PlainPositions(h)) + Cardinality(RunStarts(h))
    /\ \A s \in RunStarts(h) :
        LET e == RunLast(h, s)
            m == out[OutboundPosition(h, s)] IN
        /\ m.role = "user"
        /\ m.content =
             [blocks |-> [n \in 1..(e - s + 1) |->
                 [type |-> "tool_result", tool_use_id |-> h[s + n - 1].ToolCallID,
                  content |-> h[s + n - 1].Content]]]
\* C15: every request of the Anthropic adapter merges the runs of tool messages
C15_ToolRunsMerged ==
    [][(Len(replies') = Len(replies) + 1 /\ request'.api = "anthropic") =>
        RunsMerged(History, request'.messages)]_vars
\* user, assistant with three calls, three tool messages: three outbound messages
C15_Witness ==
    /\ request.api = "anthropic"
    /\ Len(replies) = 2 /\ replies[1].ok /\ replies[1].msg.ToolCalls = ReqMany
    /\ Len(request.messages) = 3

(***************************************************************************)
(* C16.  Whatever makes a provider call fail (the request cannot be sent,  *)
(* the status is not 200, the body cannot be decoded, the body holds no    *)
(* choice or content), the adapter returns an error and no message, and    *)
(* the turn ends on that call in the same way, without another call.       *)
(***************************************************************************)
\* C16: every failure cause ends the turn on that call with the error Response
C16_EveryFailureAborts ==
    exchange \in HTTPFailures =>
        /\ Generate(exchange).msg = Nil
        /\ Generate(exchange).err # Nil
        /\ pc = "idle" /\ outcome = "error"
        /\ Len(replies) = turns[Len(turns)].calls
        /\ \A k \in 1..Len(replies) : replies[k].ok <=> k < Len(replies)
        /\ ret.op = "GetResponse"
        /\ ret.Content = <<"Error contacting the mainframe: ">> \o Deref(Generate(exchange).err)
        /\ History[Len(History)].Role # "assistant" \/ replies[Len(replies)].ok = FALSE
C16_Witness ==
    /\ exchange.kind = "empty" /\ pc = "idle" /\ outcome = "error"
    /\ Len(replies) = 2

(***************************************************************************)
(* Vocabulary of the tool properties.                                      *)
(***************************************************************************)
\* the step is a direct call of Execute; ret' holds the call and its outcome
Called(name) == ret'.op = "Execute" /\ ret'.name = name
\* a required argument is missing or holds a value of the wrong type
InvalidArguments(name, args) ==
    \E r \in Required(name) : r[1] \notin DOMAIN args \/ DOMAIN args[r[1]] # {r[2]}
\* target occurs in text at offset k
Occurs(text, target, k) ==
    /\ k + Len(target) <= Len(text)
    /\ SubSeq(text, k + 1, k + Len(target)) = target
OccursIn(text, target) == \E k \in 0..Len(text) : Occurs(text, target, k)
LeftmostOffset(text, target) ==
    CHOOSE k \in 0..Len(text) :
        Occurs(text, target, k) /\ \A j \in 0..(k - 1) : ~Occurs(text, target, j)
\* the step is edit_file(path, target, replacement) on an existing file
EditsFile ==
    /\ Called("edit_file")
    /\ ~InvalidArguments("edit_file", ret'.args)
    /\ IsFile(fs, ret'.args["path"].str)

(***************************************************************************)
(* C17.  For every tool with required arguments, Execute with a required   *)
(* argument missing or of the wrong type returns an error and does no I/O: *)
(* the file system is as before and no process is started.                 *)
(***************************************************************************)
\* C17: invalid arguments give an error, an unchanged file system and no process
C17_InvalidArgumentsNoIO ==
    [][\A name \in ToolNames :
        (Called(name) /\ Required(name) # {} /\ InvalidArguments(name, ret'.args)) =>
            /\ ~IsNil(ret'.err)
            /\ fs' = fs
            /\ ~ret'.spawned]_vars
\* write_file without content on a file system that holds a file
C17_Witness ==
    /\ ret.op = "Execute" /\ ret.name = "write_file"
    /\ DOMAIN ret.args = {"path"} /\ ret.args["path"] = JStr(<<"f">>)
    /\ ~IsNil(ret.err)
    /\ fs[<<"f">>] = File(<<"a", "b">>)

(***************************************************************************)
(* C18.  edit_file on an existing file that does not contain the target    *)
(* fails and leaves the file as it was.                                    *)
(***************************************************************************)
\* C18: an absent target gives an error and an unchanged file system
C18_AbsentTargetLeavesFile ==
    [][(EditsFile /\ ~OccursIn(fs[ret'.args["path"].str].data, ret'.args["target"].str)) =>
        /\ ~IsNil(ret'.err)
        /\ fs' = fs]_vars
C18_Witness ==
    /\ ret.op = "Execute" /\ ret.name = "edit_file"
    /\ ~InvalidArguments("edit_file", ret.args)
    /\ ret.args["path"] = JStr(<<"f">>) /\ ret.args["target"] = JStr(<<"b">>)
    /\ ret.err = Ptr(<<"target string not found in file">>)
    /\ fs[<<"f">>] = File(<<"a", "a">>)

(***************************************************************************)
(* C19.  edit_file replaces the leftmost occurrence of the target and      *)
(* nothing else: every other byte of the file is unchanged.                *)
(***************************************************************************)
\* C19: the file becomes prefix, replacement, suffix around the leftmost occurrence
C19_FirstOccurrenceReplaced ==
    [][(EditsFile /\ OccursIn(fs[ret'.args["path"].str].data, ret'.args["target"].str)) =>
        LET path == ret'.args["path"].str
            target == ret'.args["target"].str
            text == fs[path].data
            k == LeftmostOffset(text, target) IN
        /\ IsNil(ret'.err)
        /\ fs' = [fs EXCEPT ![path] = File(SubSeq(text, 1, k) \o ret'.args["replacement"].str
                                          \o SubSeq(text, k + Len(target) + 1, Len(text)))]]_vars
\* the target a replaced by b in a file that held it twice: b, a, a remains
C19_Witness ==
    /\ ret.op = "Execute" /\ ret.name = "edit_file" /\ IsNil(ret.err)
    /\ ret.args["path"] = JStr(<<"f">>)
    /\ ret.args["target"] = JStr(<<"a">>) /\ ret.args["replacement"] = JStr(<<"b">>)
    /\ fs[<<"f">>] = File(<<"b", "b", "a">>)

(***************************************************************************)
(* C20.  read_file right after a successful write_file of the same path    *)
(* returns exactly the content written: the write replaces what the file   *)
(* held.                                                                   *)
(***************************************************************************)
\* C20: read_file after write_file returns the written content
C20_ReadAfterWrite ==
    [][(ret'.op = "Execute" /\ ret'.follows) =>
        /\ IsNil(ret'.err)
        /\ ret'.result = ret.args["content"].str]_vars
C20_Witness ==
    /\ ret.op = "Execute" /\ ret.name = "read_file" /\ ret.follows
    /\ ret.result = <<"a", "b">> /\ IsNil(ret.err)

(***************************************************************************)
(* C21.  run_command with a valid command argument never returns a tool    *)
(* error.  When the command exits with failure, Execute returns a          *)
(* successful result whose text holds the failure description and the      *)
(* captured output, and GetResponse records that text as it is, without    *)
(* the prefix "Error executing tool".                                      *)
(***************************************************************************)
\* the step is run_command with a string command
RunsCommand == Called("run_command") /\ ~InvalidArguments("run_command", ret'.args)
\* C21: a failing command gives a successful result holding failure and output
C21_FailingCommandIsResult ==
    [][RunsCommand =>
        LET cmd == CombinedOutput(ret'.args["command"].str, fs)
            recorded == RunToolCall(ToolCall(1, "run_command", ret'.args), fs).result IN
        /\ IsNil(ret'.err)
        /\ recorded = ret'.result
        /\ ~IsNil(cmd.err) =>
            /\ Contains(ret'.result, Deref(cmd.err))
            /\ Contains(ret'.result, cmd.output)
            /\ SubSeq(recorded, 1, 1) # <<"Error executing tool: ">>]_vars
\* rm f where f is a directory: the command fails with output
C21_Witness ==
    /\ ret.op = "Execute" /\ ret.name = "run_command"
    /\ ret.args = [command |-> JStr(CmdRemove)]
    /\ IsNil(ret.err)
    /\ ret.result = <<"Command failed: ", "exit status 1", "\nOutput:\n", "rm: cannot remove 'f'\n">>
    /\ fs[<<"f">>] = Dir

(***************************************************************************)
(* C22.  append_to_file(path, content) on a file with content c leaves the *)
(* file with c followed by content, and on a missing file creates it with  *)
(* exactly content.                                                        *)
(***************************************************************************)
\* the step is append_to_file(path, content) with valid arguments on a path
\* that holds a file or nothing
AppendsToFile ==
    /\ Called("append_to_file")
    /\ ~InvalidArguments("append_to_file", ret'.args)
    /\ ret'.args["path"].str \in DOMAIN fs
    /\ ~IsDir(fs, ret'.args["path"].str)
\* C22: the file holds its old content followed by the appended content
C22_AppendKeepsContent ==
    [][AppendsToFile =>
        LET path == ret'.args["path"].str
            content == ret'.args["content"].str IN
        /\ IsNil(ret'.err)
        /\ fs' = [fs EXCEPT ![path] =
                     File((IF IsFile(fs, path) THEN fs[path].data ELSE <<>>) \o content)]]_vars
\* b appended to a file that held a, b
C22_Witness ==
    /\ ret.op = "Execute" /\ ret.name = "append_to_file" /\ IsNil(ret.err)
    /\ ret.args = [path |-> JStr(<<"f">>), content |-> JStr(<<"b">>)]
    /\ fs[<<"f">>] = File(<<"a", "b", "b">>)

(***************************************************************************)
(* C23.  With no provider configured, UpdateConfig changes nothing (the    *)
(* Agent stays without a provider) and GetConfig returns the zero-value    *)
(* configuration, also after any number of UpdateConfig calls; neither     *)
(* reports an error.                                                       *)
(***************************************************************************)
\* the state of the Agent and of its surroundings is unchanged by the step
AgentUnchanged == LLM' = LLM /\ History' = History /\ fs' = fs
\* C23: without a provider UpdateConfig is a no-op and GetConfig gives the zero Config
C23_NoProviderConfigCalls ==
    [][IsNil(LLM) =>
        /\ ret'.op = "UpdateConfig" =>
            /\ IsNil(LLM')
            /\ AgentUnchanged
            /\ DOMAIN ret' = {"op", "cfg"}
        /\ ret'.op = "GetConfig" =>
            /\ AgentUnchanged
            /\ ret' = [op |-> "GetConfig", Config |-> ZeroConfig]]_vars
\* GetConfig has returned the zero Config on an Agent without a provider
C23_Witness ==
    /\ IsNil(LLM)
    /\ pc = "idle"
    /\ ret = [op |-> "GetConfig", Config |-> ZeroConfig]

(***************************************************************************)
(* C24.  The OpenAI adapter sends exactly one outbound message per message *)
(* of the history, in the same order, with that message's role and         *)
(* content; a tool message stays a message of its own with its             *)
(* tool_call_id, and an assistant message's tool calls keep their order,   *)
(* ids and names.                                                          *)
(***************************************************************************)
\* the outbound message out is the OpenAI form of the message msg
OpenAIKeeps(msg, out) ==
    /\ out.role = msg.Role
    /\ out.content = msg.Content
    /\ msg.Role = "tool" =>
        /\ "tool_call_id" \in DOMAIN out
        /\ out.tool_call_id = msg.ToolCallID
    /\ Len(msg.ToolCalls) > 0 =>
        /\ "tool_calls" \in DOMAIN out
        /\ Len(out.tool_calls) = Len(msg.ToolCalls)
        /\ \A j \in 1..Len(msg.ToolCalls) :
            /\ out.tool_calls[j].id = msg.ToolCalls[j].ID
            /\ out.tool_calls[j].function.name = msg.ToolCalls[j].Name
\* C24: every request of the OpenAI adapter holds the history message by message
C24_OpenAIKeepsMessages ==
    [][(Len(replies') = Len(replies) + 1 /\ request'.api = "openai") =>
        /\ Len(request'.messages) = Len(History)
        /\ \A k \in 1..Len(History) : OpenAIKeeps(History[k], request'.messages[k])]_vars
\* system, user, assistant with three calls, three tool messages: six
\* outbound messages
C24_Witness ==
    /\ request.api = "openai"
    /\ Len(replies) = 2 /\ replies[1].ok /\ replies[1].msg.ToolCalls = ReqMany
    /\ Len(request.messages) = 6
    /\ request.messages[4].role = "tool" /\ request.messages[4].tool_call_id = 103

(***************************************************************************)
(* C25.  Within an iteration that executes tools, GetResponse executes the *)
(* requested calls one at a time in request order and appends exactly one  *)
(* tool message per call, in the same order, each with that call's id; the *)
(* next provider call happens only after all of them are appended, so its  *)
(* history holds every result of the iteration.                            *)
(***************************************************************************)
\* History ends with the assistant message a followed by one tool message
\* for each of the first n calls of a, in order, and these n calls are the
\* last n executed
EndsWithResults(a, n) ==
    LET at == Len(History) - n IN
    /\ at >= 1
    /\ n <= Len(a.ToolCalls)
    /\ History[at] = a
    /\ \A j \in 1..n :
        /\ History[at + j].Role = "tool"
        /\ History[at + j].ToolCallID = a.ToolCalls[j].ID
    /\ Len(executed) >= n
    /\ SubSeq(executed, Len(executed) - n + 1, Len(executed)) = SubSeq(a.ToolCalls, 1, n)
\* C25: calls run in order, one tool message each, all before the next provider call
C25_ResultsBeforeNextCall ==
    /\ pc = "tools" => EndsWithResults(resp, tcIdx - 1)
    /\ (pc = "generate" /\ i > 0) =>
        /\ replies[Len(replies)].ok
        /\ EndsWithResults(replies[Len(replies)].msg, Len(replies[Len(replies)].msg.ToolCalls))
\* the second provider call is due after the three calls of one request
C25_Witness ==
    /\ pc = "generate" /\ i = 1
    /\ replies[1].msg.ToolCalls = ReqMany
    /\ Len(History) = base + 5
    /\ History[Len(History)].ToolCallID = 105

(***************************************************************************)
(* C26.  Every assistant message returned by a successful provider call is *)
(* appended to History before any stop decision: it is in History when the *)
(* turn ends by final answer, by loop detection (the repeated request is   *)
(* the last element of History) or by budget exhaustion, and the assistant *)
(* messages appended in a turn are as many as its successful provider      *)
(* calls.                                                                  *)
(***************************************************************************)
\* the messages appended to History since the turn began, the user message
\* included
AppendedInTurn == SubSeq(History, base + 1, Len(History))
AssistantsIn(h) == SelectSeq(h, LAMBDA m : m.Role = "assistant")
\* a turn with a provider is running or has returned
InOrAfterTurn == pc # "idle" \/ (Returned /\ outcome # "nobrain")
\* C26: the assistant messages of the turn are the replies of its successful calls
C26_RepliesAlwaysAppended ==
    InOrAfterTurn =>
        /\ AssistantsIn(AppendedInTurn) = Successful(replies)
        /\ (Returned /\ outcome \in {"final", "loop"}) =>
            /\ replies[Len(replies)].ok
            /\ History[Len(History)] = replies[Len(replies)].msg
        /\ (Returned /\ outcome = "loop") =>
            /\ Len(replies) >= 2
            /\ History[Len(History)].ToolCalls = replies[Len(replies) - 1].msg.ToolCalls
        /\ (Returned /\ outcome = "exhausted") =>
            /\ Len(replies) = MaxSteps
            /\ Len(AssistantsIn(AppendedInTurn)) = MaxSteps
\* a turn stopped by loop detection: the repeated request is the last message
C26_Witness ==
    /\ Returned /\ outcome = "loop"
    /\ Len(replies) = 2
    /\ History[Len(History)].Role = "assistant"
    /\ History[Len(History)].ToolCalls = ReqMany

(***************************************************************************)
(* C27.  A failed provider call leaves History exactly as it was when the  *)
(* call was issued: if the first call of the turn fails, History is the    *)
(* History before the turn plus the user message; if a later call fails,   *)
(* the assistant and tool messages of the earlier iterations stay and      *)
(* nothing is appended for the failed call.                                *)
(***************************************************************************)
\* the step is a provider call that fails
ProviderCallFails ==
    /\ pc = "generate"
    /\ Len(replies') = Len(replies) + 1
    /\ ~replies'[Len(replies')].ok
\* C27: the failing call appends nothing; History is what the turn had built
C27_FailedCallLeavesHistory ==
    [][ProviderCallFails =>
        /\ History' = History
        /\ outcome' = "error"
        /\ Len(replies) = 0 =>
            /\ Len(History') = base + 1
            /\ History'[base + 1] = UserMessage(turns[Len(turns)].input)
        /\ Len(replies) > 0 =>
            LET last == replies[Len(replies)].msg
                at == Len(History') - Len(last.ToolCalls) IN
            /\ History'[at] = last
            /\ \A j \in 1..Len(last.ToolCalls) :
                /\ History'[at + j].Role = "tool"
                /\ History'[at + j].ToolCallID = last.ToolCalls[j].ID]_vars
\* the second call of a turn has failed after a request of three calls
C27_Witness ==
    /\ Returned /\ outcome = "error"
    /\ Len(replies) = 2 /\ ~replies[2].ok
    /\ replies[1].msg.ToolCalls = ReqMany
    /\ Len(History) = base + 5
    /\ History[Len(History)].Role = "tool"

(***************************************************************************)
(* C28.  At the return of every turn that ends by final answer, loop       *)
(* detection or budget exhaustion, tools_used holds, in execution order    *)
(* across all iterations, the names of the tool calls for which a tool     *)
(* message was appended in this turn, names of unknown tools and of failed *)
(* calls included; it is as long as the tool messages appended in the      *)
(* turn are many.                                                          *)
(***************************************************************************)
ToolMessagesOf(h) == SelectSeq(h, LAMBDA m : m.Role = "tool")
\* C28: tools_used names the executed calls, one per appended tool message
C28_ToolsUsedNamesEveryCall ==
    (Returned /\ outcome \in {"final", "loop", "exhausted"}) =>
        LET results == ToolMessagesOf(AppendedInTurn) IN
        /\ ret.ToolsUsed = NamesOf(executed)
        /\ Len(ret.ToolsUsed) = Len(results)
        /\ \A k \in 1..Len(results) : results[k].ToolCallID = executed[k].ID
\* a final answer after a request with an unknown tool and a failing call,
\* and a second request
C28_Witness ==
    /\ Returned /\ outcome = "final"
    /\ ret.ToolsUsed = <<"write_file", "bogus", "write_file", "read_file">>
    /\ Len(ToolMessagesOf(AppendedInTurn)) = 4

(***************************************************************************)
(* C29.  During a turn History is append-only: at every step of            *)
(* GetResponse the History before the step is a prefix of the History      *)
(* after it; ClearHistory is the only operation that shortens History.     *)
(***************************************************************************)
IsPrefix(a, b) == Len(a) <= Len(b) /\ SubSeq(b, 1, Len(a)) = a
\* the step is a call of ClearHistory
ClearsHistory == pc = "idle" /\ pc' = "idle" /\ ret'.op = "ClearHistory"
\* C29: every step extends History, except ClearHistory
C29_HistoryAppendOnly ==
    [][/\ (pc # "idle" \/ pc' # "idle") => IsPrefix(History, History')
       /\ ~ClearsHistory => IsPrefix(History, History')]_vars
\* a later turn, begun on the History of an earlier one, has appended its
\* user message, a reply and a tool message
C29_Witness ==
    /\ pc = "generate" /\ i = 1
    /\ base > 1
    /\ Len(History) = base + 3
    /\ History[base + 1].Role = "user" /\ History[base + 3].Role = "tool"

(***************************************************************************)
(* C30.  Tool effects are not transactional: what the completed tool calls *)
(* of a turn changed in the file system remains when the turn then ends by *)
(* provider failure, loop detection or budget exhaustion, and when a later *)
(* tool call of the same request fails.                                    *)
(***************************************************************************)
\* C30: only a tool call that succeeds changes the file system; no other
\* step of a turn, and no failing call, undoes it
C30_NoRollback ==
    [][/\ pc # "tools" => fs' = fs
       /\ pc = "tools" =>
           /\ fs' = RunToolCall(resp.ToolCalls[tcIdx], fs).fs
           /\ CallFails(resp.ToolCalls[tcIdx]) => fs' = fs]_vars
\* one request wrote the file f, then named an unknown tool and made a
\* failing call, and the next provider call failed: the file is there
C30_Witness ==
    /\ Returned /\ outcome = "error"
    /\ executed = ReqMany
    /\ CallFails(executed[3])
    /\ fs[<<"f">>] = File(<<"a">>)

(***************************************************************************)
(* C32.  The Anthropic adapter reports usage with prompt_tokens =          *)
(* input_tokens, completion_tokens = output_tokens and total_tokens =      *)
(* input_tokens + output_tokens; the OpenAI adapter copies the three       *)
(* reported fields unchanged, its total included even when it differs from *)
(* prompt + completion.                                                    *)
(***************************************************************************)
\* C32: the usage of a decoded message, per adapter
C32_UsagePerAdapter ==
    ret.op = "Generate" =>
        LET u == Deref(ret.msg.Usage)
            w == ret.body.usage IN
        /\ ~IsNil(ret.msg.Usage)
        /\ ret.variant = "anthropic" =>
            /\ u.PromptTokens = w.input_tokens
            /\ u.CompletionTokens = w.output_tokens
            /\ u.TotalTokens = w.input_tokens + w.output_tokens
        /\ ret.variant = "openai" =>
            /\ u.PromptTokens = w.prompt_tokens
            /\ u.CompletionTokens = w.completion_tokens
            /\ u.TotalTokens = w.total_tokens
\* an Anthropic body with input 2 and output 1 gives the total 3
C32_Witness ==
    /\ ret.op = "Generate" /\ ret.variant = "anthropic"
    /\ ret.body.usage = [input_tokens |-> 2, output_tokens |-> 1]
    /\ ret.msg.Usage = Ptr(Usage(2, 1, 3))

(***************************************************************************)
(* C33.  In every Anthropic outbound request no message has role system or *)
(* tool: the system message's content is sent only as the top-level system *)
(* string, tool results only inside user-role messages, and the remaining  *)
(* user and assistant messages keep the order of the history.              *)
(***************************************************************************)
\* the outbound message carries tool results
CarriesResults(out) ==
    /\ "blocks" \in DOMAIN out.content
    /\ \E j \in 1..Len(out.content.blocks) : out.content.blocks[j].type = "tool_result"
\* the outbound message out is the Anthropic form of the user or assistant
\* message msg
AnthropicKeeps(msg, out) ==
    /\ out.role = msg.Role
    /\ Len(msg.ToolCalls) = 0 => out.content = [text |-> msg.Content]
    /\ Len(msg.ToolCalls) > 0 =>
        /\ "blocks" \in DOMAIN out.content
        /\ LET uses == SelectSeq(out.content.blocks, LAMBDA b : b.type = "tool_use") IN
           /\ Len(uses) = Len(msg.ToolCalls)
           /\ \A j \in 1..Len(uses) :
               uses[j].id = msg.ToolCalls[j].ID /\ uses[j].name = msg.ToolCalls[j].Name
AnthropicShape(h, req) ==
    LET out == req.messages
        spoken == SelectSeq(h, LAMBDA m : m.Role \in {"user", "assistant"})
        kept == SelectSeq(out, LAMBDA m : ~CarriesResults(m)) IN
    /\ \A k \in 1..Len(out) :
        /\ out[k].role \in {"user", "assistant"}
        /\ CarriesResults(out[k]) => out[k].role = "user"
    /\ "system" \in DOMAIN req
    /\ req.system = h[1].Content
    /\ \A k \in 1..Len(out) : out[k].content # [text |-> h[1].Content]
    /\ Len(kept) = Len(spoken)
    /\ \A k \in 1..Len(spoken) : AnthropicKeeps(spoken[k], kept[k])
\* C33: every request of the Anthropic adapter has this shape
C33_AnthropicRoles ==
    [][(Len(replies') = Len(replies) + 1 /\ request'.api = "anthropic") =>
        AnthropicShape(History, request')]_vars
\* the third call of a turn: user, assistant, results, assistant, results
C33_Witness ==
    /\ request.api = "anthropic"
    /\ Len(replies) = 3
    /\ Len(request.messages) = 5
    /\ request.messages[1].role = "user" /\ request.messages[2].role = "assistant"
    /\ CarriesResults(request.messages[3]) /\ CarriesResults(request.messages[5])
    /\ request.system = systemPrompt

(***************************************************************************)
(* C34.  Whenever GetResponse has returned, every assistant message in     *)
(* History that carries tool calls is immediately followed by exactly one  *)
(* tool message per call, in call order and with matching ids, with one    *)
(* exception: the last assistant message of a turn stopped by loop         *)
(* detection is followed by no tool message, so the next turn's user       *)
(* message comes directly after an assistant message with unanswered tool  *)
(* calls.                                                                  *)
(***************************************************************************)
\* the turn, counted since New or ClearHistory, that appended History[k]
TurnOf(k) == Len(SelectSeq(SubSeq(History, 1, k), LAMBDA m : m.Role = "user"))
\* History[k] is the last message its turn appended
LastOfTurn(k) == k = Len(History) \/ History[k + 1].Role = "user"
\* History[k] is followed by one tool message per call and then by no other
AnsweredAt(k) ==
    LET n == Len(History[k].ToolCalls) IN
    /\ k + n <= Len(History)
    /\ \A j \in 1..n :
        /\ History[k + j].Role = "tool"
        /\ History[k + j].ToolCallID = History[k].ToolCalls[j].ID
    /\ k + n < Len(History) => History[k + n + 1].Role # "tool"
\* History[k] is the repeated request that stopped its turn
StoppedByLoopAt(k) == LastOfTurn(k) /\ turns[TurnOf(k)].how = "loop"
\* C34: requests are answered, except the one that stopped a turn as a repeat
C34_RequestsAnswered ==
    pc = "idle" =>
        \A k \in 1..Len(History) :
            (History[k].Role = "assistant" /\ Len(History[k].ToolCalls) > 0) =>
                IF StoppedByLoopAt(k)
                THEN k < Len(History) => History[k + 1].Role = "user"
                ELSE AnsweredAt(k)
\* a turn has returned after a turn that was stopped by loop detection: its
\* user message follows the unanswered request
C34_Witness ==
    /\ Returned
    /\ Len(turns) = 2 /\ turns[1].how = "loop"
    /\ History[base].Role = "assistant" /\ History[base].ToolCalls = ReqRead
    /\ History[base + 1].Role = "user"
    /\ StoppedByLoopAt(base)

(***************************************************************************)
(* C35.  At every provider call made by GetResponse the history passed is  *)
(* the Agent's complete current History, and its last message has role     *)
(* user (first call of a turn) or tool (every later call); the provider is *)
(* never called with a history that ends in an assistant message.          *)
(***************************************************************************)
\* the step is a provider call
ProviderCalled == pc = "generate" /\ Len(replies') = Len(replies) + 1
\* C35: the provider gets all of History, which ends in a user or a tool message
C35_ProviderSeesWholeHistory ==
    [][ProviderCalled =>
        /\ request' = ProviderRequest(Deref(LLM), History)
        /\ History[Len(History)].Role = (IF Len(replies) = 0 THEN "user" ELSE "tool")
        /\ History[Len(History)].Role # "assistant"]_vars
\* the second call of a turn was made on a History that ends in the three
\* results of the first request, and failed
C35_Witness ==
    /\ Returned /\ outcome = "error"
    /\ Len(replies) = 2 /\ replies[1].msg.ToolCalls = ReqMany
    /\ request = ProviderRequest(Deref(LLM), History)
    /\ request.api = "openai" /\ Len(request.messages) = base + 5
    /\ History[Len(History)].Role = "tool"

(***************************************************************************)
(* C36.  Loop-detection state is local to one turn: the first provider     *)
(* response of a turn never triggers the loop stop, even when its          *)
(* ToolCalls are identical to the last ToolCalls requested in the previous *)
(* turn (also when that turn itself ended by loop detection), and its      *)
(* tools are executed.                                                     *)
(***************************************************************************)
\* C36: a first reply with tool calls is not a repeat; its calls are executed
C36_FirstReplyNeverLoops ==
    (Len(replies) >= 1 /\ replies[1].ok /\ Len(replies[1].msg.ToolCalls) > 0) =>
        LET calls == replies[1].msg.ToolCalls IN
        /\ Len(replies) = 1 => outcome # "loop"
        /\ IF pc = "tools" /\ Len(replies) = 1
           THEN executed = SubSeq(calls, 1, tcIdx - 1)
           ELSE Len(executed) >= Len(calls) /\ SubSeq(executed, 1, Len(calls)) = calls
\* the turn before was stopped on a repeated read_file request; this turn's
\* first reply is that very request, and it has been executed
C36_Witness ==
    /\ pc = "generate" /\ i = 1
    /\ Len(turns) = 2 /\ turns[1].how = "loop"
    /\ History[base].Role = "assistant" /\ History[base].ToolCalls = ReqRead
    /\ replies[1].ok /\ replies[1].msg.ToolCalls = ReqRead
    /\ executed = ReqRead

(***************************************************************************)
(* C37.  A GetResponse call with no provider configured leaves History     *)
(* unchanged: the user message is not appended, so inputs sent while no    *)
(* provider is configured are absent from the history a provider sees      *)
(* after a later SetProvider.                                              *)
(***************************************************************************)
\* the user messages of History
UserMessagesIn(h) == SelectSeq(h, LAMBDA m : m.Role = "user")
\* the user messages of History are the inputs of the turns that had a provider
OnlyProviderTurnsRecorded ==
    /\ Len(UserMessagesIn(History)) = Len(turns)
    /\ \A k \in 1..Len(turns) : UserMessagesIn(History)[k].Content = turns[k].input
\* C37: a call without a provider appends nothing, and History never holds its input
C37_NoProviderLeavesHistory ==
    [][/\ (IsNil(LLM) /\ ret'.op = "GetResponse") =>
            /\ History' = History
            /\ ret'.Content = NoBrainMessage
       /\ OnlyProviderTurnsRecorded']_vars
\* a call without a provider has returned and History holds the system
\* message only
C37_Witness ==
    /\ Returned /\ outcome = "nobrain"
    /\ IsNil(LLM)
    /\ History = <<SystemMessage>>

(***************************************************************************)
(* C38.  With a provider configured, UpdateConfig(cfg) followed by         *)
(* GetConfig() returns cfg, and UpdateConfig changes only the stored       *)
(* configuration: the adapter variant that serves later GetResponse calls  *)
(* stays the one constructed at start-up even when cfg.Provider names the  *)
(* other vendor, and History and Tools are unchanged.                      *)
(***************************************************************************)
\* C38: UpdateConfig stores cfg and nothing else; GetConfig returns it
C38_UpdateConfigStoresOnly ==
    [][~IsNil(LLM) =>
        /\ ret'.op = "UpdateConfig" =>
            /\ ~IsNil(LLM')
            /\ Deref(LLM').Config = ret'.cfg
            /\ Deref(LLM').variant = Deref(LLM).variant
            /\ ProviderRequest(Deref(LLM'), History').api = Deref(LLM).variant
            /\ History' = History
            /\ fs' = fs
        /\ (ret.op = "UpdateConfig" /\ ret'.op = "GetConfig") =>
            ret'.Config = ret.cfg]_vars
\* GetConfig has returned a configuration that names anthropic while the
\* adapter is the OpenAI one
C38_Witness ==
    /\ ret = [op |-> "GetConfig", Config |-> cfgAnthropic]
    /\ ~IsNil(LLM)
    /\ Deref(LLM).variant = "openai"
    /\ ProviderRequest(Deref(LLM), History).api = "openai"

\* the commands of the program that are in flight and call the Agent
TurnsInFlight == SelectSeq(ui.cmds, LAMBDA c : c.kind = "GetResponse")
\* a step that delivers the message of a command to Update
Delivers == Len(ui.cmds') < Len(ui.cmds)
\* C31: in the terminal program at most one command (a GetResponse turn
\* or a model-list fetch) is in flight at any time and loading is true
\* exactly while one is; while loading is true the model changes only when
\* the message of that command is delivered, so every key event leaves it
\* as it was, and while a turn is in flight the Agent is touched by that
\* turn alone: no call of ClearHistory, GetConfig or UpdateConfig returns,
\* the provider stays and History only grows.
C31_OneCommandInFlight ==
    /\ [](/\ Len(ui.cmds) <= 1
          /\ ui.m.loading <=> ui.cmds # <<>>
          /\ pc # "idle" => Len(TurnsInFlight) = 1)
    /\ [][/\ ui.m.loading => (ui'.m = ui.m \/ Delivers)
          /\ (ui.m.loading /\ ui'.discarded /\ ~ui.discarded) =>
                /\ ui'.m = ui.m
                /\ ui'.cmds = ui.cmds
                /\ UNCHANGED <<LLM, History, fs, pc, ret>>
          /\ Len(TurnsInFlight) > 0 =>
                /\ LLM' = LLM
                /\ IsPrefix(History, History')
                /\ ret' # ret => ret'.op \in {"pending", "GetResponse"}]_vars
\* a key was discarded while the only command in flight, a turn, was
\* executing the tool calls of a reply
C31_Witness ==
    /\ ui.discarded
    /\ ui.m.loading
    /\ Len(ui.cmds) = 1
    /\ ui.cmds[1].kind = "GetResponse"
    /\ pc = "tools"
    /\ ui.m.textArea = <<>>

====
